---- MODULE Spec2Model ----
(***************************************************************************)
(* Model of the JonBuhTrader backtester: the Position Ledger               *)
(* (backtester.Portfolio), the Broker execution simulator, the Simulation  *)
(* Engine (Engine.Run / CloseAllPostionsAtEnd) and the FIFO trade matcher  *)
(* (PositionTracker.ProcessTrade).                                         *)
(*                                                                         *)
(* Numbers.  The program computes in float64.  Money amounts, prices and   *)
(* quantities are modelled as integers (one unit of resolution); a float   *)
(* division x / y is FDiv(x, y), the quotient rounded down to that         *)
(* resolution.  Pure ratios (the drawdown fractions) are kept as exact     *)
(* fractions [n, d] in lowest terms.  Percentages (slippage) are whole     *)
(* percents; a rate is a pair <<numerator, denominator>>.                  *)
(***************************************************************************)
EXTENDS Integers, Sequences, FiniteSets, TLC

VARIABLES
    portfolio,      \* backtester.Portfolio: cash, positions, trades, totalValue, drawdown
    last,           \* the most recent Ledger operation, its arguments and the Ledger before it
    broker,         \* backtester.Broker: commissionConfig, slippage, maxSlippage
    pc,             \* Engine.Run: position of the run
    feedMore,       \* feed.HasMoreData()
    dataPointCount, \* Engine.Run: dataPointCount
    dataPoint,      \* Engine.Run: the DataPoint being processed
    orders,         \* Engine.Run: the orders of this tick not yet submitted
    results,        \* backtester.Results: Trades, EquityCurve, FinalCapital, ...
    liq,            \* CloseAllPostionsAtEnd: loop state
    hist,           \* history of the run: what each tick did, the Ledger at exhaustion
    tracker,        \* backtester.PositionTracker: OpenTrades
    mlast,          \* the most recent ProcessTrade call: trade, queue before, samples returned
    allocator,      \* one AllocateCapital call: config, cash, signals, the orders emitted
    metrics,        \* one CalculateMetrics call: the Results and the PerformanceMetrics
    fill,           \* one Broker call: the order, the bar and what each method returned
    feed            \* feed.HistoricalFeed: dataPoints, currentIdx, initialized

vars == <<portfolio, last, broker, pc, feedMore, dataPointCount, dataPoint, orders,
          results, liq, hist, tracker, mlast, allocator, metrics, fill, feed>>

ledgerVars == <<portfolio, last>>
engineVars == <<broker, pc, feedMore, dataPointCount, dataPoint, orders, results, liq, hist>>
matcherVars == <<tracker, mlast>>
allocVars == <<allocator>>
metricsVars == <<metrics>>
fillVars == <<fill>>
feedVars == <<feed>>

-----------------------------------------------------------------------------
(* Bounds of the model *)

\* SpecLedger: number of Ledger operations in one behaviour
MaxLedgerOps == 3
\* SpecEngine: number of DataPoints the feed yields
MaxTicks == 2
\* SpecEngine: number of Orders the Strategy returns for one DataPoint
MaxOrders == 2
\* SpecMatcher: number of trades in the trade log
MaxMatcherTrades == 3

-----------------------------------------------------------------------------
(* Arithmetic *)

Abs(x) == IF x < 0 THEN -x ELSE x

Min(x, y) == IF x <= y THEN x ELSE y

\* float64 division x / y at unit resolution (y # 0)
FDiv(x, y) == IF y > 0 THEN x \div y ELSE (-x) \div (-y)

RECURSIVE GCD(_, _)
GCD(a, b) == IF b = 0 THEN a ELSE GCD(b, a % b)

\* the fraction n / d (n >= 0, d > 0) in lowest terms
Frac(n, d) == LET g == GCD(n, d) IN [n |-> n \div g, d |-> d \div g]

FracZero == [n |-> 0, d |-> 1]

\* a / b > c / d (b, d > 0), by the continued-fraction expansions: no product is formed
RECURSIVE RatioGT(_, _, _, _)
RatioGT(a, b, c, d) ==
    LET qa == a \div b
        qc == c \div d
        ra == a % b
        rc == c % d
    IN IF qa # qc THEN qa > qc
       ELSE IF ra = 0 THEN FALSE
       ELSE IF rc = 0 THEN TRUE
       ELSE RatioGT(d, rc, b, ra)

FracGT(x, y) == RatioGT(x.n, x.d, y.n, y.d)

Range(q) == { q[i] : i \in 1 .. Len(q) }

RECURSIVE SumOver(_, _)
SumOver(S, f) ==
    IF S = {} THEN 0
    ELSE LET s == CHOOSE x \in S : TRUE IN f[s] + SumOver(S \ {s}, f)

-----------------------------------------------------------------------------
(* Leaf types *)

Symbols == {"A", "B"}

\* a strategy.Position as NewPosition leaves it (events.go:199)
ZeroPosition == [Quantity |-> 0, AvgPrice |-> 0, MarketValue |-> 0,
                 UnrealizedPL |-> 0, RealizedPL |-> 0]

\* a map with key k removed
MapDelete(m, k) == [s \in (DOMAIN m) \ {k} |-> m[s]]

\* a map with m[k] = v
MapPut(m, k, v) == [s \in (DOMAIN m) \cup {k} |-> IF s = k THEN v ELSE m[s]]

NoBars == [s \in {} |-> 0]

\* a strategy.BarData whose open, high, low and close are one price
FlatBar(price, timestamp) ==
    [Timestamp |-> timestamp, Open |-> price, High |-> price, Low |-> price, Close |-> price]

\* the zero strategy.BarData: what a Go map yields for a symbol it does not hold
ZeroBar == FlatBar(0, 0)

-----------------------------------------------------------------------------
(* Position Ledger: backtester.Portfolio *)

NewPortfolio(initialCapital) ==
    [cash |-> initialCapital, initialCash |-> initialCapital,
     positions |-> NoBars, trades |-> <<>>, totalValue |-> initialCapital,
     maxDrawdown |-> FracZero, currentDrawdown |-> FracZero,
     peakValue |-> initialCapital]

GetTotalValue(p) == p.totalValue

GetCash(p) == p.cash

\* Σ position.MarketValue over the active positions
TotalMarketValue(positions) ==
    SumOver(DOMAIN positions, [s \in DOMAIN positions |-> positions[s].MarketValue])

TradeValue(trade) == trade.Quantity * trade.Price

TotalFees(trade) == trade.Commission + trade.SecFee + trade.FinraTaf + trade.Slippage

\* mutant of ApplyBuy: a buy into a long position takes the trade price as the basis
ApplyBuyLastPrice(position, trade) ==
    IF position.Quantity >= 0
    THEN [position EXCEPT !.AvgPrice = trade.Price,
                          !.Quantity = position.Quantity + trade.Quantity]
    ELSE IF Abs(trade.Quantity) <= Abs(position.Quantity)
    THEN LET quantity == position.Quantity + trade.Quantity
         IN [position EXCEPT
               !.RealizedPL = @ + (position.AvgPrice - trade.Price) * trade.Quantity,
               !.Quantity = quantity,
               !.AvgPrice = IF quantity = 0 THEN 0 ELSE @]
    ELSE [position EXCEPT
            !.RealizedPL = @ + (position.AvgPrice - trade.Price) * Abs(position.Quantity),
            !.Quantity = trade.Quantity - Abs(position.Quantity),
            !.AvgPrice = trade.Price]

\* the Buy branch: quantity, average price and realized P&L of the position
ApplyBuy(position, trade) ==
    IF position.Quantity >= 0
    THEN LET newQuantity == position.Quantity + trade.Quantity
         IN [position EXCEPT
               !.AvgPrice = FDiv(position.AvgPrice * position.Quantity
                                   + trade.Price * trade.Quantity, newQuantity),
               !.Quantity = newQuantity]
    ELSE IF Abs(trade.Quantity) <= Abs(position.Quantity)
    THEN LET realizedPL == (position.AvgPrice - trade.Price) * trade.Quantity
             quantity == position.Quantity + trade.Quantity
         IN [position EXCEPT
               !.RealizedPL = @ + realizedPL,
               !.Quantity = quantity,
               !.AvgPrice = IF quantity = 0 THEN 0 ELSE @]
    ELSE LET coverQuantity == Abs(position.Quantity)
             realizedPL == (position.AvgPrice - trade.Price) * coverQuantity
         IN [position EXCEPT
               !.RealizedPL = @ + realizedPL,
               !.Quantity = trade.Quantity - coverQuantity,
               !.AvgPrice = trade.Price]

\* mutant of ApplySell: a reversal keeps the basis of the closed long position
ApplySellKeepBasisOnReverse(position, trade) ==
    IF position.Quantity <= 0
    THEN LET newQuantity == position.Quantity - trade.Quantity
         IN [position EXCEPT
               !.AvgPrice = IF position.Quantity = 0 THEN trade.Price
                            ELSE FDiv(position.AvgPrice * Abs(position.Quantity)
                                        + trade.Price * trade.Quantity, Abs(newQuantity)),
               !.Quantity = newQuantity]
    ELSE IF trade.Quantity <= position.Quantity
    THEN LET quantity == position.Quantity - trade.Quantity
         IN [position EXCEPT
               !.RealizedPL = @ + (trade.Price - position.AvgPrice) * trade.Quantity,
               !.Quantity = quantity,
               !.AvgPrice = IF quantity = 0 THEN 0 ELSE @]
    ELSE [position EXCEPT
            !.RealizedPL = @ + (trade.Price - position.AvgPrice) * position.Quantity,
            !.Quantity = -(trade.Quantity - position.Quantity)]

\* mutant of ApplySell: a sell that extends a short position books the difference to
\* its basis as realized P&L
ApplySellRealizesOnExtend(position, trade) ==
    IF position.Quantity <= 0
    THEN LET newQuantity == position.Quantity - trade.Quantity
         IN [position EXCEPT
               !.RealizedPL = @ + (trade.Price - position.AvgPrice) * trade.Quantity,
               !.AvgPrice = IF position.Quantity = 0 THEN trade.Price
                            ELSE FDiv(position.AvgPrice * Abs(position.Quantity)
                                        + trade.Price * trade.Quantity, Abs(newQuantity)),
               !.Quantity = newQuantity]
    ELSE IF trade.Quantity <= position.Quantity
    THEN LET quantity == position.Quantity - trade.Quantity
         IN [position EXCEPT
               !.RealizedPL = @ + (trade.Price - position.AvgPrice) * trade.Quantity,
               !.Quantity = quantity,
               !.AvgPrice = IF quantity = 0 THEN 0 ELSE @]
    ELSE [position EXCEPT
            !.RealizedPL = @ + (trade.Price - position.AvgPrice) * position.Quantity,
            !.Quantity = -(trade.Quantity - position.Quantity),
            !.AvgPrice = trade.Price]

\* the Sell branch
ApplySell(position, trade) ==
    IF position.Quantity <= 0
    THEN LET newQuantity == position.Quantity - trade.Quantity
         IN [position EXCEPT
               !.AvgPrice = IF position.Quantity = 0 THEN trade.Price
                            ELSE FDiv(position.AvgPrice * Abs(position.Quantity)
                                        + trade.Price * trade.Quantity, Abs(newQuantity)),
               !.Quantity = newQuantity]
    ELSE IF trade.Quantity <= position.Quantity
    THEN LET realizedPL == (trade.Price - position.AvgPrice) * trade.Quantity
             quantity == position.Quantity - trade.Quantity
         IN [position EXCEPT
               !.RealizedPL = @ + realizedPL,
               !.Quantity = quantity,
               !.AvgPrice = IF quantity = 0 THEN 0 ELSE @]
    ELSE LET sellQuantity == position.Quantity
             realizedPL == (trade.Price - position.AvgPrice) * sellQuantity
         IN [position EXCEPT
               !.RealizedPL = @ + realizedPL,
               !.Quantity = -(trade.Quantity - sellQuantity),
               !.AvgPrice = trade.Price]

\* cash after the trade: every branch of a side moves cash the same way
CashAfterTrade(cash, trade) ==
    IF trade.Side = "BUY"
    THEN cash - (TradeValue(trade) + TotalFees(trade))
    ELSE cash + TradeValue(trade) - TotalFees(trade)

\* market value and unrealized P&L after the trade
Revalue(position, currentPrice) ==
    [position EXCEPT
       !.MarketValue = position.MarketValue + position.Quantity * currentPrice,
       !.UnrealizedPL =
           IF position.Quantity > 0
           THEN (currentPrice - position.AvgPrice) * position.Quantity
           ELSE IF position.Quantity < 0
           THEN (position.AvgPrice - currentPrice) * Abs(position.Quantity)
           ELSE 0]

\* mutant of StorePosition: the zero-quantity removal is missing
StorePositionKeepZero(positions, symbol, position) == MapPut(positions, symbol, position)

\* the position is kept in the map, or removed when its quantity is zero
StorePosition(positions, symbol, position) ==
    IF position.Quantity = 0
    THEN MapDelete(positions, symbol)
    ELSE MapPut(positions, symbol, position)

\* mutant of ExecuteTrade: the trade is not added to the history
ExecuteTradeForgetsHistory(p, trade, currentPrice) ==
    LET symbol == trade.Symbol
        position == IF symbol \in DOMAIN p.positions
                    THEN p.positions[symbol] ELSE ZeroPosition
        moved == IF trade.Side = "BUY"
                 THEN ApplyBuy(position, trade) ELSE ApplySell(position, trade)
    IN [p EXCEPT
          !.cash = CashAfterTrade(p.cash, trade),
          !.positions = StorePosition(p.positions, symbol, Revalue(moved, currentPrice))]

ExecuteTrade(p, trade, currentPrice) ==
    LET symbol == trade.Symbol
        position == IF symbol \in DOMAIN p.positions
                    THEN p.positions[symbol] ELSE ZeroPosition
        moved == IF trade.Side = "BUY"
                 THEN ApplyBuy(position, trade) ELSE ApplySell(position, trade)
    IN [p EXCEPT
          !.cash = CashAfterTrade(p.cash, trade),
          !.positions = StorePosition(p.positions, symbol, Revalue(moved, currentPrice)),
          !.trades = Append(p.trades, trade)]

\* one position marked to the bar of its symbol, when the bars hold one
MarkPosition(position, barData, symbol) ==
    IF symbol \in DOMAIN barData
    THEN LET close == barData[symbol].Close
         IN [position EXCEPT
               !.MarketValue = position.Quantity * close,
               !.UnrealizedPL =
                   IF position.Quantity > 0
                   THEN (close - position.AvgPrice) * position.Quantity
                   ELSE IF position.Quantity < 0
                   THEN (position.AvgPrice - close) * Abs(position.Quantity)
                   ELSE @]
    ELSE position

\* mutant of UpdateDrawdown: the maximum is assigned the current drawdown
UpdateDrawdownTracksCurrent(p, totalValue) ==
    IF totalValue > p.peakValue
    THEN [p EXCEPT !.totalValue = totalValue, !.peakValue = totalValue,
                   !.currentDrawdown = FracZero, !.maxDrawdown = FracZero]
    ELSE LET dd == Frac(p.peakValue - totalValue, p.peakValue)
         IN [p EXCEPT !.totalValue = totalValue, !.currentDrawdown = dd,
                      !.maxDrawdown = dd]

\* the drawdown fields for a new total value
UpdateDrawdown(p, totalValue) ==
    IF totalValue > p.peakValue
    THEN [p EXCEPT !.totalValue = totalValue, !.peakValue = totalValue,
                   !.currentDrawdown = FracZero]
    ELSE LET dd == Frac(p.peakValue - totalValue, p.peakValue)
         IN [p EXCEPT !.totalValue = totalValue, !.currentDrawdown = dd,
                      !.maxDrawdown = IF FracGT(dd, @) THEN dd ELSE @]

\* mutant of UpdateMarketValues: the total is summed before the positions are re-marked
UpdateMarketValuesStaleTotal(p, barData) ==
    LET marked == [s \in DOMAIN p.positions |-> MarkPosition(p.positions[s], barData, s)]
    IN UpdateDrawdown([p EXCEPT !.positions = marked],
                      p.cash + TotalMarketValue(p.positions))

UpdateMarketValues(p, barData) ==
    LET marked == [s \in DOMAIN p.positions |-> MarkPosition(p.positions[s], barData, s)]
    IN UpdateDrawdown([p EXCEPT !.positions = marked],
                      p.cash + TotalMarketValue(marked))

\* commission of a trade value under a CommissionConfig
CalculateCommission(cc, tradeValue) ==
    IF cc.Type = "fixed" THEN cc.Rate[1]
    ELSE FDiv(tradeValue * cc.Rate[1], cc.Rate[2])

\* mutant of CanAfford: the estimated commission is left out of a Buy's cost
CanAffordWithoutCommission(p, cc, order, price) ==
    IF order.Side = "BUY"
    THEN p.cash >= order.Quantity * price
    ELSE IF order.Symbol \notin DOMAIN p.positions THEN FALSE
    ELSE p.positions[order.Symbol].Quantity >= order.Quantity

CanAfford(p, cc, order, price) ==
    IF order.Side = "BUY"
    THEN LET tradeValue == order.Quantity * price
             totalCost == tradeValue + CalculateCommission(cc, tradeValue)
         IN p.cash >= totalCost
    ELSE IF order.Symbol \notin DOMAIN p.positions THEN FALSE
    ELSE p.positions[order.Symbol].Quantity >= order.Quantity

-----------------------------------------------------------------------------
(* FIFO Trade Matcher: backtester.PositionTracker *)

\* the PositionTracker CalculateMetrics creates for a symbol (results.go:461)
NewPositionTracker == [OpenTrades |-> <<>>, RealizedPL |-> 0]

OpenPosition(quantity, entryPrice, entryTime, commission) ==
    [Quantity |-> quantity, EntryPrice |-> entryPrice, EntryTime |-> entryTime,
     Commission |-> commission]

\* results.go:317-354: the loop of the Sell branch, from the state
\* [open, remainingToSell, realizedPLs]; a ratio a * (b / c) is computed as (a * b) / c
RECURSIVE SellLoop(_, _)
SellLoop(st, trade) ==
    IF ~(Len(st.open) > 0 /\ st.remainingToSell > 0) THEN st
    ELSE LET openPos == st.open[1]
             exitPrice == trade.Price
             exitCommission == trade.Commission
         IN IF openPos.Quantity <= st.remainingToSell
            THEN LET quantityClosed == openPos.Quantity
                     grossPL == (exitPrice - openPos.EntryPrice) * quantityClosed
                     totalCommission ==
                         openPos.Commission
                           + FDiv(exitCommission * quantityClosed, trade.Quantity)
                     netPL == grossPL - totalCommission
                 IN SellLoop([open |-> Tail(st.open),
                              remainingToSell |-> st.remainingToSell - quantityClosed,
                              realizedPLs |-> Append(st.realizedPLs, netPL)], trade)
            ELSE LET quantityClosed == st.remainingToSell
                     grossPL == (exitPrice - openPos.EntryPrice) * quantityClosed
                     totalCommission ==
                         FDiv(openPos.Commission * quantityClosed, openPos.Quantity)
                           + FDiv(exitCommission * quantityClosed, trade.Quantity)
                     netPL == grossPL - totalCommission
                     reduced ==
                         [openPos EXCEPT
                            !.Quantity = @ - quantityClosed,
                            !.Commission =
                                @ - FDiv(openPos.Commission * quantityClosed,
                                         openPos.Quantity)]
                 IN SellLoop([open |-> <<reduced>> \o Tail(st.open),
                              remainingToSell |-> 0,
                              realizedPLs |-> Append(st.realizedPLs, netPL)], trade)

RECURSIVE SumSeq(_)
SumSeq(q) == IF q = <<>> THEN 0 ELSE Head(q) + SumSeq(Tail(q))

\* mutant of ProcessTrade: a Sell beyond the open lots opens no short lot
ProcessTradeNoShortLot(pt, trade) ==
    IF trade.Side = "BUY"
    THEN [pt |-> [pt EXCEPT
                    !.OpenTrades = Append(@, OpenPosition(trade.Quantity, trade.Price,
                                                          trade.Timestamp,
                                                          trade.Commission))],
          realizedPLs |-> <<>>]
    ELSE LET st == SellLoop([open |-> pt.OpenTrades, remainingToSell |-> trade.Quantity,
                             realizedPLs |-> <<>>], trade)
         IN [pt |-> [OpenTrades |-> st.open,
                     RealizedPL |-> pt.RealizedPL + SumSeq(st.realizedPLs)],
             realizedPLs |-> st.realizedPLs]

\* ProcessTrade: the tracker after the trade and the realized P&L samples returned
ProcessTrade(pt, trade) ==
    IF trade.Side = "BUY"
    THEN [pt |-> [pt EXCEPT
                    !.OpenTrades = Append(@, OpenPosition(trade.Quantity, trade.Price,
                                                          trade.Timestamp,
                                                          trade.Commission))],
          realizedPLs |-> <<>>]
    ELSE LET st == SellLoop([open |-> pt.OpenTrades, remainingToSell |-> trade.Quantity,
                             realizedPLs |-> <<>>], trade)
             open == IF st.remainingToSell > 0
                     THEN Append(st.open,
                                 OpenPosition(-st.remainingToSell, trade.Price,
                                              trade.Timestamp,
                                              FDiv(trade.Commission * st.remainingToSell,
                                                   trade.Quantity)))
                     ELSE st.open
         IN [pt |-> [OpenTrades |-> open,
                     RealizedPL |-> pt.RealizedPL + SumSeq(st.realizedPLs)],
             realizedPLs |-> st.realizedPLs]

\* GetCurrentPosition: the net position of the open lots
RECURSIVE GetCurrentPosition(_)
GetCurrentPosition(open) ==
    IF open = <<>> THEN 0 ELSE Head(open).Quantity + GetCurrentPosition(Tail(open))

-----------------------------------------------------------------------------
(* Values shared by the specifications *)

NoTrade == [Symbol |-> "", Side |-> "", Quantity |-> 0, Price |-> 0, Timestamp |-> 0,
            Commission |-> 0, SecFee |-> 0, FinraTaf |-> 0, Slippage |-> 0,
            Reason |-> ""]

NoOrder == [Symbol |-> "", Side |-> "", Type |-> "", Quantity |-> 0, Price |-> 0,
            StopPrice |-> 0, Reason |-> ""]

\* no ProcessTrade call yet
NoProcessTrade == [trade |-> NoTrade, before |-> <<>>, realizedPLs |-> <<>>, log |-> <<>>]

PercentageCommission == [Type |-> "percentage", Rate |-> <<1, 10>>]

FixedCommission == [Type |-> "fixed", Rate |-> <<5, 1>>]

\* no Ledger operation yet
NoCall(p) == [op |-> "none", n |-> 0, trade |-> NoTrade, price |-> 0, bars |-> NoBars,
              order |-> NoOrder, commissionConfig |-> PercentageCommission,
              result |-> FALSE, before |-> p]

\* the Results NewEngineWithConfig builds (engine.go:43); MaxDrawdown is the zero value
NewResults(initialCapital) ==
    [InitialCapital |-> initialCapital, Trades |-> <<>>, EquityCurve |-> <<>>,
     StartDate |-> 0, EndDate |-> 0, FinalCapital |-> 0, TotalReturn |-> 0,
     TotalPL |-> 0, MaxDrawdown |-> FracZero]

NoLiquidation == [todo |-> {}, liquidationCount |-> 0]

\* nothing has happened yet in the run
NoHistory ==
    [errorTicks |-> 0, failures |-> 0, returned |-> <<>>, tradesBefore |-> 0,
     onTrade |-> [trade |-> NoTrade, ledger |-> <<>>],
     submitted |-> [order |-> NoOrder, close |-> 0, affordable |-> TRUE, filled |-> FALSE,
                    left |-> 0, before |-> NewPortfolio(0)],
     open |-> NoBars, liquidations |-> <<>>, skipped |-> {}]

\* the variables a specification does not use
IdleLedger ==
    /\ portfolio = NewPortfolio(0)
    /\ last = NoCall(NewPortfolio(0))

IdleEngine ==
    /\ broker = [commissionConfig |-> PercentageCommission, slippage |-> 0, maxSlippage |-> 0]
    /\ pc = "Idle"
    /\ feedMore = FALSE
    /\ dataPointCount = 0
    /\ dataPoint = [Timestamp |-> 0, Bars |-> NoBars]
    /\ orders = <<>>
    /\ results = NewResults(0)
    /\ liq = NoLiquidation
    /\ hist = NoHistory

IdleMatcher ==
    /\ tracker = NewPositionTracker
    /\ mlast = NoProcessTrade

-----------------------------------------------------------------------------
(* Broker Execution Simulator: backtester.Broker *)

\* money units in one dollar: the hard-coded dollar amounts below are converted with it
UnitsPerDollar == 100

\* SEC fee: $0.0000278 per dollar of sale proceeds, as 278 per 10,000,000
SecFeePerTenMillion == 278

\* FINRA TAF: $0.000145 per share, in millionths of a dollar
FinraTafPerShareMicros == 145

\* FINRA TAF: at most $7.27, in millionths of a dollar
FinraTafMaxMicros == 7270000

\* the values rand.Float64() * maxSlippage takes, in whole percents: [0, maxSlippage)
RandomSlippage(b) == IF b.maxSlippage = 0 THEN {0} ELSE 0 .. (b.maxSlippage - 1)

\* close * (1 + pct/100)
PlusPercent(price, pct) == FDiv(price * (100 + pct), 100)

\* close * (1 - pct/100)
MinusPercent(price, pct) == FDiv(price * (100 - pct), 100)

\* mutant of Fillable: a limit order is tested against the close
FillableLimitOnClose(order, currentBar) ==
    CASE order.Type = "MARKET" -> TRUE
      [] order.Type = "LIMIT" ->
           IF order.Side = "BUY" THEN currentBar.Close <= order.Price
           ELSE currentBar.Close >= order.Price
      [] order.Type = "STOP" ->
           IF order.Side = "BUY" THEN currentBar.High >= order.StopPrice
           ELSE currentBar.Low <= order.StopPrice
      [] OTHER -> FALSE

Fillable(order, currentBar) ==
    CASE order.Type = "MARKET" -> TRUE
      [] order.Type = "LIMIT" ->
           IF order.Side = "BUY" THEN currentBar.Low <= order.Price
           ELSE currentBar.High >= order.Price
      [] order.Type = "STOP" ->
           IF order.Side = "BUY" THEN currentBar.High >= order.StopPrice
           ELSE currentBar.Low <= order.StopPrice
      [] OTHER -> FALSE

\* mutant of FillPrice: a stop Sell is filled at a premium
FillPriceStopSellPremium(order, currentBar, totalSlippage) ==
    CASE order.Type = "MARKET" ->
           IF order.Side = "BUY" THEN PlusPercent(currentBar.Close, totalSlippage)
           ELSE MinusPercent(currentBar.Close, totalSlippage)
      [] order.Type = "LIMIT" -> order.Price
      [] OTHER -> PlusPercent(order.StopPrice, totalSlippage)

\* the fill price of a fillable order under total slippage totalSlippage (percent)
FillPrice(order, currentBar, totalSlippage) ==
    CASE order.Type = "MARKET" ->
           IF order.Side = "BUY" THEN PlusPercent(currentBar.Close, totalSlippage)
           ELSE MinusPercent(currentBar.Close, totalSlippage)
      [] order.Type = "LIMIT" -> order.Price
      [] OTHER ->
           IF order.Side = "BUY" THEN PlusPercent(order.StopPrice, totalSlippage)
           ELSE MinusPercent(order.StopPrice, totalSlippage)

\* mutant of SlippageCost: the expected price is always the order's price
SlippageCostFromOrderPrice(order, currentBar, fillPrice) ==
    Abs(fillPrice - order.Price) * order.Quantity

SlippageCost(order, currentBar, fillPrice) ==
    LET expectedPrice == IF order.Type = "LIMIT" THEN order.Price ELSE currentBar.Close
    IN Abs(fillPrice - expectedPrice) * order.Quantity

\* mutant of SecFee: charged on both sides
SecFeeBothSides(order, tradeValue) == FDiv(tradeValue * SecFeePerTenMillion, 10000000)

SecFee(order, tradeValue) ==
    IF order.Side = "SELL" THEN FDiv(tradeValue * SecFeePerTenMillion, 10000000) ELSE 0

FinraTaf(order) ==
    FDiv(Min(order.Quantity * FinraTafPerShareMicros, FinraTafMaxMicros) * UnitsPerDollar,
         1000000)

\* ExecuteOrder with random slippage component rnd: [ok, trade]
ExecuteOrder(b, order, currentBar, rnd) ==
    IF ~Fillable(order, currentBar) THEN [ok |-> FALSE, trade |-> NoTrade]
    ELSE LET fillPrice == FillPrice(order, currentBar, b.slippage + rnd)
             tradeValue == order.Quantity * fillPrice
         IN [ok |-> TRUE,
             trade |-> [Symbol |-> order.Symbol, Side |-> order.Side,
                        Quantity |-> order.Quantity, Price |-> fillPrice,
                        Timestamp |-> currentBar.Timestamp,
                        Commission |-> CalculateCommission(b.commissionConfig, tradeValue),
                        SecFee |-> SecFee(order, tradeValue),
                        FinraTaf |-> FinraTaf(order),
                        Slippage |-> SlippageCost(order, currentBar, fillPrice),
                        Reason |-> order.Reason]]

\* mutant of CanExecuteOrder: a stop Sell is tested against the high
CanExecuteOrderStopSellOnHigh(order, currentBar) ==
    CASE order.Type = "MARKET" -> TRUE
      [] order.Type = "LIMIT" ->
           IF order.Side = "BUY" THEN currentBar.Low <= order.Price
           ELSE currentBar.High >= order.Price
      [] order.Type = "STOP" -> currentBar.High >= order.StopPrice
      [] OTHER -> FALSE

\* CanExecuteOrder
CanExecuteOrder(order, currentBar) ==
    CASE order.Type = "MARKET" -> TRUE
      [] order.Type = "LIMIT" ->
           IF order.Side = "BUY" THEN currentBar.Low <= order.Price
           ELSE currentBar.High >= order.Price
      [] order.Type = "STOP" ->
           IF order.Side = "BUY" THEN currentBar.High >= order.StopPrice
           ELSE currentBar.Low <= order.StopPrice
      [] OTHER -> FALSE

\* GetExecutionPrice with random slippage component rnd: [ok, price]
GetExecutionPrice(b, order, currentBar, rnd) ==
    LET totalSlippage == b.slippage + rnd
    IN CASE order.Type = "MARKET" ->
              [ok |-> TRUE,
               price |-> IF order.Side = "BUY"
                         THEN PlusPercent(currentBar.Close, totalSlippage)
                         ELSE MinusPercent(currentBar.Close, totalSlippage)]
         [] order.Type = "LIMIT" ->
              IF CanExecuteOrder(order, currentBar)
              THEN [ok |-> TRUE, price |-> order.Price]
              ELSE [ok |-> FALSE, price |-> 0]
         [] order.Type = "STOP" ->
              IF CanExecuteOrder(order, currentBar)
              THEN [ok |-> TRUE,
                    price |-> IF order.Side = "BUY"
                              THEN PlusPercent(order.StopPrice, totalSlippage)
                              ELSE MinusPercent(order.StopPrice, totalSlippage)]
              ELSE [ok |-> FALSE, price |-> 0]
         [] OTHER -> [ok |-> FALSE, price |-> 0]

\* no Broker call: the broker, the order and the bar of the calls, and what ExecuteOrder
\* (exec), CanExecuteOrder (can) and GetExecutionPrice (quote) returned
NoFill ==
    [broker |-> [commissionConfig |-> PercentageCommission, slippage |-> 0,
                 maxSlippage |-> 0],
     order |-> NoOrder, bar |-> ZeroBar,
     exec |-> [called |-> FALSE, totalSlippage |-> 0, ok |-> FALSE, trade |-> NoTrade],
     can |-> [called |-> FALSE, ok |-> FALSE],
     quote |-> [called |-> FALSE, ok |-> FALSE, price |-> 0]]

IdleFill == fill = NoFill

-----------------------------------------------------------------------------
(* Capital Allocator: strategy.CapitalAllocator.  Cash amounts are integers; the
   fractions PositionSize, SlippageBuffer and confidence are whole percents; a float64
   share quantity is in 1/SharesScale share, and the prices are multiples of
   SharesScale, so that quantity x price is exact. *)

\* the resolution of a share quantity
SharesScale == 10

Max(x, y) == IF x >= y THEN x ELSE y

\* the position size adjustment (percent) for a volatility (in 1/1000): x0.7 above 3%,
\* x0.85 above 2%
getVolatilityAdjustment(volatility) ==
    IF volatility > 30 THEN 70 ELSE IF volatility > 20 THEN 85 ELSE 100

\* signal.Volatility is what config.VolatilityCallback returns for the signal's symbol
calculatePositionSize(config, signal, allocation) ==
    IF allocation <= 0 \/ signal.Price <= 0 THEN 0
    ELSE LET quantity == FDiv(allocation * SharesScale, signal.Price)
             adjusted == IF config.VolatilityAdjust
                         THEN FDiv(quantity * getVolatilityAdjustment(signal.Volatility), 100)
                         ELSE quantity
             floored == IF config.AllowFractional THEN adjusted
                        ELSE (adjusted \div SharesScale) * SharesScale
         IN Max(0, floored)

\* quantity * signal.GetPrice()
SignalCost(quantity, signal) == FDiv(quantity * signal.Price, SharesScale)

\* one emitted Order, with what the allocator logs about it: the signal, the cost, the
\* allocation it was sized from and the cash remaining after it
Emitted(signal, quantity, allocation, remainingCash) ==
    [order |-> [Symbol |-> signal.Symbol, Side |-> "BUY", Type |-> "MARKET",
                Quantity |-> quantity, Price |-> 0, StopPrice |-> 0,
                Reason |-> signal.SignalType],
     signal |-> signal, cost |-> SignalCost(quantity, signal),
     allocation |-> allocation, remainingCash |-> remainingCash]

\* the loop of allocateEqually, which keeps no remaining cash
RECURSIVE EqualLoop(_, _, _)
EqualLoop(config, signals, allocationPerSignal) ==
    IF signals = <<>> THEN <<>>
    ELSE LET signal == Head(signals)
             quantity == calculatePositionSize(config, signal, allocationPerSignal)
             rest == EqualLoop(config, Tail(signals), allocationPerSignal)
         IN IF quantity > 0
            THEN <<Emitted(signal, quantity, allocationPerSignal, 0)>> \o rest
            ELSE rest

\* mutant of allocateEqually: every signal is given the whole budget
allocateEquallyUndivided(config, signals, tradableCash) ==
    EqualLoop(config, signals, FDiv(tradableCash * config.PositionSize, 100))

allocateEqually(config, signals, tradableCash) ==
    EqualLoop(config, signals,
              FDiv(tradableCash * config.PositionSize, 100 * Len(signals)))

\* mutant of WeightedAllocation: the last signal gets its proportional share too
WeightedAllocationShareForLast(config, signals, weights, i, remainingCash, tradableCash) ==
    Min(FDiv(tradableCash * config.PositionSize * weights[i], 100 * SumSeq(weights)),
        remainingCash)

\* the allocation of signal i: what is left for the last signal, else its share of
\* tradableCash * PositionSize, capped by what is left
WeightedAllocation(config, signals, weights, i, remainingCash, tradableCash) ==
    IF i = Len(signals) THEN remainingCash
    ELSE Min(FDiv(tradableCash * config.PositionSize * weights[i],
                  100 * SumSeq(weights)),
             remainingCash)

\* the loop of allocateByConfidence and of allocateByPriority, from signal i on, over
\* the weights (confidences or priorities) of the signals
RECURSIVE WeightedLoop(_, _, _, _, _, _)
WeightedLoop(config, signals, weights, i, remainingCash, tradableCash) ==
    IF i > Len(signals) \/ remainingCash <= config.MinCashBuffer THEN <<>>
    ELSE LET signal == signals[i]
             allocation == WeightedAllocation(config, signals, weights, i,
                                              remainingCash, tradableCash)
             quantity == calculatePositionSize(config, signal, allocation)
             cost == SignalCost(quantity, signal)
             emit == quantity > 0 /\ cost <= remainingCash
             left == IF emit THEN remainingCash - cost ELSE remainingCash
             rest == WeightedLoop(config, signals, weights, i + 1, left, tradableCash)
         IN IF emit THEN <<Emitted(signal, quantity, allocation, left)>> \o rest
            ELSE rest

allocateByConfidence(config, signals, tradableCash) ==
    LET weights == [i \in 1 .. Len(signals) |-> signals[i].Confidence]
    IN IF SumSeq(weights) = 0 THEN allocateEqually(config, signals, tradableCash)
       ELSE WeightedLoop(config, signals, weights, 1,
                         FDiv(tradableCash * config.PositionSize, 100), tradableCash)

allocateByPriority(config, signals, tradableCash) ==
    LET weights == [i \in 1 .. Len(signals) |-> signals[i].Priority]
    IN IF SumSeq(weights) = 0 THEN allocateEqually(config, signals, tradableCash)
       ELSE WeightedLoop(config, signals, weights, 1,
                         FDiv(tradableCash * config.PositionSize, 100), tradableCash)

\* mutant of SequentialAllocation: every signal is sized from the tradable cash
SequentialAllocationFromTradable(config, remainingCash, tradableCash) ==
    FDiv(tradableCash * config.PositionSize, 100)

\* remainingCash * min(PositionSize, remainingCash / tradableCash), tradableCash > 0
SequentialAllocation(config, remainingCash, tradableCash) ==
    IF config.PositionSize * tradableCash <= 100 * remainingCash
    THEN FDiv(remainingCash * config.PositionSize, 100)
    ELSE FDiv(remainingCash * remainingCash, tradableCash)

RECURSIVE SequentialLoop(_, _, _, _)
SequentialLoop(config, signals, remainingCash, tradableCash) ==
    IF signals = <<>> \/ remainingCash <= config.MinCashBuffer THEN <<>>
    ELSE LET signal == Head(signals)
             allocation == SequentialAllocation(config, remainingCash, tradableCash)
             quantity == calculatePositionSize(config, signal, allocation)
             cost == SignalCost(quantity, signal)
             emit == quantity > 0 /\ cost <= remainingCash
             left == IF emit THEN remainingCash - cost ELSE remainingCash
             rest == SequentialLoop(config, Tail(signals), left, tradableCash)
         IN IF emit THEN <<Emitted(signal, quantity, allocation, left)>> \o rest
            ELSE rest

allocateSequential(config, signals, tradableCash) ==
    SequentialLoop(config, signals, tradableCash, tradableCash)

allocateByMethod(config, signals, tradableCash) ==
    CASE config.Method = "equal" -> allocateEqually(config, signals, tradableCash)
      [] config.Method = "confidence" -> allocateByConfidence(config, signals, tradableCash)
      [] config.Method = "priority" -> allocateByPriority(config, signals, tradableCash)
      [] OTHER -> allocateSequential(config, signals, tradableCash)

\* mutant of SignalLess: the second key breaks no tie
SignalLessNoTiebreak(config, a, b) ==
    CASE config.Method \in {"confidence", "sequential"} -> a.Confidence > b.Confidence
      [] config.Method = "priority" -> a.Priority > b.Priority
      [] OTHER -> FALSE

\* the less function sort.Slice is given
SignalLess(config, a, b) ==
    CASE config.Method \in {"confidence", "sequential"} ->
           IF a.Confidence # b.Confidence THEN a.Confidence > b.Confidence
           ELSE a.Priority > b.Priority
      [] config.Method = "priority" ->
           IF a.Priority # b.Priority THEN a.Priority > b.Priority
           ELSE a.Confidence > b.Confidence
      [] OTHER -> FALSE

\* the orders sort.Slice, which is not stable, may leave the signals in
sortSignals(config, signals) ==
    IF config.Method \notin {"confidence", "sequential", "priority"} THEN {signals}
    ELSE LET n == Len(signals)
             perms == { f \in [1 .. n -> 1 .. n] : \A i, j \in 1 .. n : i # j => f[i] # f[j] }
             orders_ == { [i \in 1 .. n |-> signals[f[i]]] : f \in perms }
         IN { q \in orders_ :
                \A i, j \in 1 .. n : i < j => ~SignalLess(config, q[j], q[i]) }

\* availableCash * (1.0 - SlippageBuffer)
TradableCash(config, availableCash) == FDiv(availableCash * (100 - config.SlippageBuffer), 100)

\* mutant of AllocateCapital: cash equal to the minimum buffer is let through
AllocateCapitalStrictBuffer(config, availableCash, signals, sortedSignals) ==
    IF Len(signals) = 0 THEN <<>>
    ELSE IF availableCash < config.MinCashBuffer THEN <<>>
    ELSE LET tradableCash == TradableCash(config, availableCash)
             maxSignals == IF config.MaxPositions > 0 /\ Len(signals) > config.MaxPositions
                           THEN config.MaxPositions ELSE Len(signals)
         IN IF tradableCash < config.MinCashBuffer THEN <<>>
            ELSE allocateByMethod(config, SubSeq(sortedSignals, 1, maxSignals),
                                  tradableCash)

\* AllocateCapital, sortedSignals being the outcome of sortSignals on the copy
AllocateCapital(config, availableCash, signals, sortedSignals) ==
    IF Len(signals) = 0 THEN <<>>
    ELSE IF availableCash <= config.MinCashBuffer THEN <<>>
    ELSE LET tradableCash == TradableCash(config, availableCash)
             maxSignals == IF config.MaxPositions > 0 /\ Len(signals) > config.MaxPositions
                           THEN config.MaxPositions ELSE Len(signals)
         IN IF tradableCash < config.MinCashBuffer THEN <<>>
            ELSE allocateByMethod(config, SubSeq(sortedSignals, 1, maxSignals),
                                  tradableCash)

\* no AllocateCapital call
NoAllocation ==
    [config |-> [Method |-> "", MaxPositions |-> 0, PositionSize |-> 0,
                 MinCashBuffer |-> 0, SlippageBuffer |-> 0, AllowFractional |-> FALSE,
                 VolatilityAdjust |-> FALSE],
     cash |-> 0, signals |-> <<>>, called |-> FALSE, sorted |-> <<>>, emitted |-> <<>>]

IdleAlloc == allocator = NoAllocation

-----------------------------------------------------------------------------
(* Performance Analyzer: Results.CalculateMetrics.  The float64 metrics are exact
   rationals [n, d] with d > 0, in lowest terms. *)

Rat(n, d) ==
    LET g == GCD(Abs(n), Abs(d))
    IN IF d > 0 THEN [n |-> n \div g, d |-> d \div g]
       ELSE [n |-> (-n) \div g, d |-> (-d) \div g]

QInt(i) == [n |-> i, d |-> 1]

QAdd(x, y) ==
    LET l == (x.d \div GCD(x.d, y.d)) * y.d
    IN Rat(x.n * (l \div x.d) + y.n * (l \div y.d), l)

QSub(x, y) == QAdd(x, [y EXCEPT !.n = -y.n])

QMul(x, y) == Rat(x.n * y.n, x.d * y.d)

\* x / y, y # 0
QDiv(x, y) == Rat(x.n * y.d, x.d * y.n)

RECURSIVE QSum(_)
QSum(q) == IF q = <<>> THEN QInt(0) ELSE QAdd(Head(q), QSum(Tail(q)))

\* &PerformanceMetrics{}
ZeroMetrics ==
    [TotalTrades |-> 0, WinningTrades |-> 0, LosingTrades |-> 0, WinRate |-> QInt(0),
     AvgWin |-> QInt(0), AvgLoss |-> QInt(0), LargestWin |-> 0, LargestLoss |-> 0,
     ProfitFactor |-> QInt(0), SharpeRatio |-> QInt(0), SortinoRatio |-> QInt(0),
     MaxDrawdown |-> QInt(0), MaxDrawdownPct |-> QInt(0), CalmarRatio |-> QInt(0)]

\* the trade loop of CalculateMetrics: tradeResults, the realized samples of the log in
\* order, positions being the PositionTracker of each symbol
RECURSIVE TradeResults(_, _)
TradeResults(trades, positions) ==
    IF trades = <<>> THEN <<>>
    ELSE LET trade == Head(trades)
             r == ProcessTrade(positions[trade.Symbol], trade)
         IN r.realizedPLs
              \o TradeResults(Tail(trades), [positions EXCEPT ![trade.Symbol] = r.pt])

\* the period returns CalculateMetrics takes from the equity curve
Returns(equityCurve) ==
    [i \in 1 .. Len(equityCurve) - 1 |->
        IF equityCurve[i].Value > 0
        THEN Rat(equityCurve[i + 1].Value - equityCurve[i].Value, equityCurve[i].Value)
        ELSE QInt(0)]

calculateSharpeRatio(returns) ==
    IF Len(returns) = 0 THEN QInt(0)
    ELSE LET mean == QDiv(QSum(returns), QInt(Len(returns)))
             sumSquares ==
                 QSum([i \in 1 .. Len(returns) |->
                         QMul(QSub(returns[i], mean), QSub(returns[i], mean))])
         IN IF Len(returns) <= 1 THEN QInt(0)
            ELSE LET stdDev == QDiv(sumSquares, QInt(Len(returns) - 1))
                 IN IF stdDev.n <= 0 THEN QInt(0) ELSE QDiv(mean, stdDev)

calculateSortinoRatio(returns) ==
    IF Len(returns) = 0 THEN QInt(0)
    ELSE LET mean == QDiv(QSum(returns), QInt(Len(returns)))
             downside == SelectSeq(returns, LAMBDA ret : ret.n < 0)
             sumDownside == QSum([i \in 1 .. Len(downside) |->
                                    QMul(downside[i], downside[i])])
             downsideCount == Len(downside)
         IN IF downsideCount = 0 THEN QInt(0)
            ELSE LET downsideDeviation == QDiv(sumDownside, QInt(downsideCount))
                 IN IF downsideDeviation.n <= 0 THEN QInt(0)
                    ELSE QDiv(mean, downsideDeviation)

\* the PerformanceMetrics CalculateMetrics stores in r.Metrics
CalculateMetrics(r) ==
    IF Len(r.Trades) = 0 THEN ZeroMetrics
    ELSE LET tradeResults == TradeResults(r.Trades, [s \in Symbols |-> NewPositionTracker])
             wins == SelectSeq(tradeResults, LAMBDA pl : pl > 0)
             losses == SelectSeq(tradeResults, LAMBDA pl : pl < 0)
             totalWins == SumSeq(wins)
             totalLosses == SumSeq(losses)
             winningTrades == Len(wins)
             losingTrades == Len(losses)
             largestWin == IF wins = <<>> THEN 0
                           ELSE CHOOSE pl \in Range(wins) : \A x \in Range(wins) : x <= pl
             largestLoss == IF losses = <<>> THEN 0
                            ELSE CHOOSE pl \in Range(losses) : \A x \in Range(losses) : x >= pl
             returns == Returns(r.EquityCurve)
         IN [TotalTrades |-> Len(tradeResults),
             WinningTrades |-> winningTrades,
             LosingTrades |-> losingTrades,
             WinRate |-> IF Len(tradeResults) > 0
                         THEN Rat(winningTrades * 100, Len(tradeResults)) ELSE QInt(0),
             AvgWin |-> IF winningTrades > 0 THEN Rat(totalWins, winningTrades) ELSE QInt(0),
             AvgLoss |-> IF losingTrades > 0 THEN Rat(totalLosses, losingTrades)
                         ELSE QInt(0),
             LargestWin |-> largestWin,
             LargestLoss |-> largestLoss,
             ProfitFactor |-> IF totalLosses # 0 THEN Rat(totalWins, -totalLosses)
                              ELSE QInt(0),
             SharpeRatio |-> IF Len(r.EquityCurve) > 1 THEN calculateSharpeRatio(returns)
                             ELSE QInt(0),
             SortinoRatio |-> IF Len(r.EquityCurve) > 1 THEN calculateSortinoRatio(returns)
                              ELSE QInt(0),
             MaxDrawdown |-> r.MaxDrawdown,
             MaxDrawdownPct |-> QMul(r.MaxDrawdown, QInt(100)),
             CalmarRatio |-> IF r.MaxDrawdown.n > 0
                             THEN QDiv(QInt(r.TotalReturn), QMul(r.MaxDrawdown, QInt(100)))
                             ELSE QInt(0)]

\* no CalculateMetrics call
NoMetrics == [r |-> [Trades |-> <<>>, EquityCurve |-> <<>>, MaxDrawdown |-> QInt(0),
                     TotalReturn |-> 0],
              called |-> FALSE, Metrics |-> ZeroMetrics]

IdleMetrics == metrics = NoMetrics

-----------------------------------------------------------------------------
(* Historical data source: feed.HistoricalFeed.  A timestamp is an integer. *)

\* timestampMap: the bars of allBars grouped by timestamp, a later bar of a symbol
\* replacing an earlier one with the same timestamp
TimestampMap(symbols, allBars) ==
    LET present == { s \in Range(symbols) : TRUE }
        stamps == UNION { { allBars[s][i].Timestamp : i \in 1 .. Len(allBars[s]) }
                            : s \in present }
        holders(t) == { s \in present :
                          \E i \in 1 .. Len(allBars[s]) : allBars[s][i].Timestamp = t }
        lastAt(s, t) == CHOOSE i \in 1 .. Len(allBars[s]) :
                          /\ allBars[s][i].Timestamp = t
                          /\ \A j \in 1 .. Len(allBars[s]) :
                               allBars[s][j].Timestamp = t => j <= i
    IN [t \in stamps |-> [s \in holders(t) |-> allBars[s][lastAt(s, t)]]]

\* mutant of SortTimestamps: latest first
SortTimestampsDescending(timestamps) ==
    CHOOSE q \in [1 .. Cardinality(timestamps) -> timestamps] :
      \A i, j \in 1 .. Cardinality(timestamps) : i < j => q[i] > q[j]

\* sort.Slice by Before over the keys of timestampMap, which are distinct
SortTimestamps(timestamps) ==
    CHOOSE q \in [1 .. Cardinality(timestamps) -> timestamps] :
      \A i, j \in 1 .. Cardinality(timestamps) : i < j => q[i] < q[j]

\* the DataPoints Initialize builds: one per timestamp that has a bar of as many symbols
\* as are configured
RECURSIVE DataPointsOf(_, _, _)
DataPointsOf(timestamps, timestampMap, symbols) ==
    IF timestamps = <<>> THEN <<>>
    ELSE LET timestamp == Head(timestamps)
             symbolBars == timestampMap[timestamp]
             rest == DataPointsOf(Tail(timestamps), timestampMap, symbols)
         IN IF Cardinality(DOMAIN symbolBars) = Len(symbols)
            THEN <<[Timestamp |-> timestamp, Bars |-> symbolBars]>> \o rest
            ELSE rest

\* Initialize with every GetBars call succeeding
Initialize(hf) ==
    IF hf.initialized THEN hf
    ELSE LET timestampMap == TimestampMap(hf.symbols, hf.provider)
             timestamps == SortTimestamps(DOMAIN timestampMap)
         IN [hf EXCEPT
               !.dataPoints = @ \o DataPointsOf(timestamps, timestampMap, hf.symbols),
               !.initialized = TRUE]

\* HasMoreData
HasMoreData(hf) == IF ~hf.initialized THEN TRUE ELSE hf.currentIdx < Len(hf.dataPoints)

\* GetNextDataPoint on an initialized feed: [hf, dataPoint], dataPoint <<>> being nil;
\* currentIdx counts from 0
GetNextDataPoint(hf) ==
    IF hf.currentIdx >= Len(hf.dataPoints) THEN [hf |-> hf, dataPoint |-> <<>>]
    ELSE [hf |-> [hf EXCEPT !.currentIdx = @ + 1],
          dataPoint |-> <<hf.dataPoints[hf.currentIdx + 1]>>]

\* Reset
Reset(hf) == [hf EXCEPT !.currentIdx = 0]

\* NewHistoricalFeed
NewHistoricalFeed(provider, symbols) ==
    [provider |-> provider, symbols |-> symbols, dataPoints |-> <<>>, currentIdx |-> 0,
     initialized |-> FALSE]

\* no call on the feed yet: the number of calls, the last one and what it returned, the
\* DataPoints returned since construction or the last Reset, and the number of Resets
NoFeedCall == [n |-> 0, op |-> "none", err |-> FALSE, hasMore |-> FALSE,
               dataPoint |-> <<>>, yielded |-> <<>>, resets |-> 0]

\* no HistoricalFeed
NoFeed == [hf |-> NewHistoricalFeed(<<>>, <<>>), call |-> NoFeedCall]

IdleFeed == feed = NoFeed

-----------------------------------------------------------------------------
(* SpecLedger: any sequence of Ledger operations *)

LedgerMarkPrices == {100, 110}

InitLedger ==
    LET LedgerInitialCapital == {1000}
    IN
    /\ \E c \in LedgerInitialCapital :
         /\ portfolio = NewPortfolio(c)
         /\ last = NoCall(NewPortfolio(c))
    /\ IdleEngine
    /\ IdleMatcher
    /\ IdleAlloc
    /\ IdleMetrics
    /\ IdleFill
    /\ IdleFeed

LedgerExecuteTrade ==
    LET \* the trades a caller hands to ExecuteTrade
        LedgerTrades ==
            LET LedgerFees == {[Commission |-> 0, SecFee |-> 0, FinraTaf |-> 0, Slippage |-> 0],
                               [Commission |-> 3, SecFee |-> 1, FinraTaf |-> 1, Slippage |-> 2]}
            IN
            { [Symbol |-> "A", Side |-> sd, Quantity |-> q, Price |-> pr, Timestamp |-> 0,
               Commission |-> f.Commission, SecFee |-> f.SecFee, FinraTaf |-> f.FinraTaf,
               Slippage |-> f.Slippage, Reason |-> ""]
                : sd \in {"BUY", "SELL"}, q \in {10, 15}, pr \in {100, 120}, f \in LedgerFees }
            \cup
            { [Symbol |-> "B", Side |-> sd, Quantity |-> 1, Price |-> 100, Timestamp |-> 0,
               Commission |-> 0, SecFee |-> 0, FinraTaf |-> 0, Slippage |-> 0, Reason |-> ""]
                : sd \in {"BUY", "SELL"} }
    IN
    /\ last.n < MaxLedgerOps
    /\ \E trade \in LedgerTrades, currentPrice \in LedgerMarkPrices :
         /\ portfolio' = ExecuteTrade(portfolio, trade, currentPrice)
         /\ last' = [NoCall(portfolio) EXCEPT !.op = "ExecuteTrade", !.n = last.n + 1,
                                              !.trade = trade, !.price = currentPrice]
    /\ UNCHANGED <<engineVars, matcherVars,
                   allocVars, metricsVars, fillVars, feedVars>>

LedgerUpdateMarketValues ==
    LET \* the bar maps a caller hands to UpdateMarketValues: a symbol may have no bar
        LedgerBars ==
            { [s \in S |-> FlatBar(IF s = "A" THEN a ELSE 100, 0)] : S \in SUBSET Symbols, a \in {90, 130} }
    IN
    /\ last.n < MaxLedgerOps
    /\ \E barData \in LedgerBars :
         /\ portfolio' = UpdateMarketValues(portfolio, barData)
         /\ last' = [NoCall(portfolio) EXCEPT !.op = "UpdateMarketValues", !.n = last.n + 1,
                                              !.bars = barData]
    /\ UNCHANGED <<engineVars, matcherVars,
                   allocVars, metricsVars, fillVars, feedVars>>

LedgerCanAfford ==
    LET \* the orders a caller asks CanAfford about
        LedgerOrders ==
            { [NoOrder EXCEPT !.Symbol = "A", !.Side = sd, !.Type = "MARKET", !.Quantity = q]
                : sd \in {"BUY", "SELL"}, q \in {10, 15} }
            \cup { [NoOrder EXCEPT !.Symbol = "B", !.Side = "SELL", !.Type = "MARKET",
                                   !.Quantity = 1] }
        \* the CommissionConfig NewPortfolio is given
        LedgerCommissions ==
            {PercentageCommission, FixedCommission, [Type |-> "percentage", Rate |-> <<0, 1>>]}
    IN
    /\ last.n < MaxLedgerOps
    /\ \E order \in LedgerOrders, price \in LedgerMarkPrices, cc \in LedgerCommissions :
         last' = [NoCall(portfolio) EXCEPT
                    !.op = "CanAfford", !.n = last.n + 1, !.order = order,
                    !.price = price, !.commissionConfig = cc,
                    !.result = CanAfford(portfolio, cc, order, price)]
    /\ UNCHANGED <<portfolio, engineVars, matcherVars,
                   allocVars, metricsVars, fillVars, feedVars>>

NextLedger == LedgerExecuteTrade \/ LedgerUpdateMarketValues \/ LedgerCanAfford

SpecLedger == InitLedger /\ [][NextLedger]_vars

-----------------------------------------------------------------------------
(* SpecEngine: Engine.Run.  Money is in units of 1/100 dollar. *)

\* the Bars of a DataPoint with timestamp ts: symbol B may have no bar
EngineBars(ts) ==
    { [s \in {"A", "B"} |-> FlatBar(IF s = "A" THEN a ELSE 1000, ts)] : a \in {1000, 2000} }
    \cup { [s \in {"A"} |-> FlatBar(2000, ts)] }

MarketOrder(symbol, side, quantity) ==
    [Symbol |-> symbol, Side |-> side, Type |-> "MARKET", Quantity |-> quantity,
     Price |-> 0, StopPrice |-> 0, Reason |-> "signal"]

LimitOrder(symbol, side, quantity, price) ==
    [Symbol |-> symbol, Side |-> side, Type |-> "LIMIT", Quantity |-> quantity,
     Price |-> price, StopPrice |-> 0, Reason |-> "signal"]

StopOrder(symbol, side, quantity, stopPrice) ==
    [Symbol |-> symbol, Side |-> side, Type |-> "STOP", Quantity |-> quantity,
     Price |-> 0, StopPrice |-> stopPrice, Reason |-> "signal"]

\* the Orders a Strategy may return; "STOP_LIMIT" is a type the Broker does not support
EngineOrders ==
    { MarketOrder("A", "BUY", 200), MarketOrder("A", "SELL", 200),
      MarketOrder("B", "BUY", 100), LimitOrder("A", "BUY", 100, 1500),
      StopOrder("A", "SELL", 200, 1500),
      [MarketOrder("A", "BUY", 100) EXCEPT !.Type = "STOP_LIMIT"] }

RECURSIVE SeqsUpTo(_, _)
SeqsUpTo(S, n) ==
    IF n = 0 THEN {<<>>}
    ELSE LET shorter == SeqsUpTo(S, n - 1)
         IN shorter \cup { Append(q, x) : q \in shorter, x \in S }

LastTimestamp == results.EquityCurve[Len(results.EquityCurve)].Timestamp

\* mutant of AfterLoop: liquidation runs whether or not a DataPoint was processed
AfterLoopAlwaysLiquidates == "Liquidate"

\* where Run goes when the loop over the feed ends (engine.go:145)
AfterLoop == IF dataPointCount > 0 THEN "Liquidate" ELSE "Cleanup"

InitEngine ==
    LET EngineInitialCapital == {300000}
        \* NewEngineWithConfig's commission and slippage configuration
        EngineBrokers ==
            {[commissionConfig |-> [Type |-> "percentage", Rate |-> <<1, 1000>>],
              slippage |-> 0, maxSlippage |-> 0],
             [commissionConfig |-> [Type |-> "fixed", Rate |-> <<500, 1>>],
              slippage |-> 10, maxSlippage |-> 2]}
    IN
    /\ \E c \in EngineInitialCapital :
         /\ portfolio = NewPortfolio(c)
         /\ last = NoCall(NewPortfolio(c))
         /\ results = NewResults(c)
    /\ broker \in EngineBrokers
    /\ pc = "Created"
    /\ feedMore = FALSE
    /\ dataPointCount = 0
    /\ dataPoint = [Timestamp |-> 0, Bars |-> NoBars]
    /\ orders = <<>>
    /\ liq = NoLiquidation
    /\ hist = NoHistory
    /\ IdleMatcher
    /\ IdleAlloc
    /\ IdleMetrics
    /\ IdleFill
    /\ IdleFeed

\* engine.go:70: strategy.Initialize
StrategyInitialize ==
    /\ pc = "Created"
    /\ \E ok \in BOOLEAN : pc' = IF ok THEN "FeedInitialize" ELSE "Aborted"
    /\ UNCHANGED <<ledgerVars, broker, feedMore, dataPointCount, dataPoint, orders,
                   results, liq, hist, matcherVars,
                   allocVars, metricsVars, fillVars, feedVars>>

\* engine.go:75: feed.Initialize; the feed then has data or has none
FeedInitialize ==
    /\ pc = "FeedInitialize"
    /\ \E ok \in BOOLEAN, more \in BOOLEAN :
         /\ pc' = IF ok THEN "HasData" ELSE "Aborted"
         /\ feedMore' = (ok /\ more)
    /\ UNCHANGED <<ledgerVars, broker, dataPointCount, dataPoint, orders,
                   results, liq, hist, matcherVars,
                   allocVars, metricsVars, fillVars, feedVars>>

\* mutant of CheckHasData: the check for data is missing
CheckHasDataMissing ==
    /\ pc = "HasData"
    /\ pc' = "Loop"
    /\ UNCHANGED <<ledgerVars, broker, feedMore, dataPointCount, dataPoint, orders,
                   results, liq, hist, matcherVars,
                   allocVars, metricsVars, fillVars, feedVars>>

\* engine.go:80: no data at all is fatal
CheckHasData ==
    /\ pc = "HasData"
    /\ pc' = IF feedMore THEN "Loop" ELSE "Aborted"
    /\ UNCHANGED <<ledgerVars, broker, feedMore, dataPointCount, dataPoint, orders,
                   results, liq, hist, matcherVars,
                   allocVars, metricsVars, fillVars, feedVars>>

\* engine.go:90-92: GetNextDataPoint fails
FeedError ==
    /\ pc = "Loop" /\ feedMore
    /\ pc' = "Aborted"
    /\ UNCHANGED <<ledgerVars, broker, feedMore, dataPointCount, dataPoint, orders,
                   results, liq, hist, matcherVars,
                   allocVars, metricsVars, fillVars, feedVars>>

\* engine.go:95-98: a nil DataPoint ends the loop
FeedNil ==
    /\ pc = "Loop" /\ feedMore
    /\ pc' = AfterLoop
    /\ hist' = [hist EXCEPT !.open = portfolio.positions]
    /\ UNCHANGED <<ledgerVars, broker, feedMore, dataPointCount, dataPoint, orders,
                   results, liq, matcherVars,
                   allocVars, metricsVars, fillVars, feedVars>>

\* engine.go:89: HasMoreData is false
FeedExhausted ==
    /\ pc = "Loop" /\ ~feedMore
    /\ pc' = AfterLoop
    /\ hist' = [hist EXCEPT !.open = portfolio.positions]
    /\ UNCHANGED <<ledgerVars, broker, feedMore, dataPointCount, dataPoint, orders,
                   results, liq, matcherVars,
                   allocVars, metricsVars, fillVars, feedVars>>

\* mutant of NextDataPoint: a Strategy error ends the run
NextDataPointErrorAborts ==
    /\ pc = "Loop" /\ feedMore
    /\ dataPointCount < MaxTicks
    /\ dataPointCount' = dataPointCount + 1
    /\ \E bars \in EngineBars(dataPointCount + 1) :
         dataPoint' = [Timestamp |-> dataPointCount + 1, Bars |-> bars]
    /\ feedMore' \in (IF dataPointCount + 1 < MaxTicks THEN BOOLEAN ELSE {FALSE})
    /\ \/ /\ pc' = "Aborted"
          /\ orders' = <<>>
          /\ hist' = [hist EXCEPT !.errorTicks = @ + 1, !.returned = <<>>,
                                   !.tradesBefore = Len(results.Trades)]
       \/ /\ pc' = "Orders"
          /\ orders' \in SeqsUpTo(EngineOrders, MaxOrders)
          /\ hist' = [hist EXCEPT !.failures = 0, !.returned = orders',
                                   !.tradesBefore = Len(results.Trades)]
    /\ UNCHANGED <<ledgerVars, broker, results, liq, matcherVars,
                   allocVars, metricsVars, fillVars, feedVars>>

\* engine.go:90-110: the next DataPoint is pulled and handed to the Strategy, which
\* returns Orders or fails (the tick is then abandoned: continue)
NextDataPoint ==
    /\ pc = "Loop" /\ feedMore
    /\ dataPointCount < MaxTicks
    /\ dataPointCount' = dataPointCount + 1
    /\ \E bars \in EngineBars(dataPointCount + 1) :
         dataPoint' = [Timestamp |-> dataPointCount + 1, Bars |-> bars]
    /\ feedMore' \in (IF dataPointCount + 1 < MaxTicks THEN BOOLEAN ELSE {FALSE})
    /\ \/ /\ pc' = "Loop"
          /\ orders' = <<>>
          /\ hist' = [hist EXCEPT !.errorTicks = @ + 1, !.returned = <<>>,
                                   !.tradesBefore = Len(results.Trades)]
       \/ /\ pc' = "Orders"
          /\ orders' \in SeqsUpTo(EngineOrders, MaxOrders)
          /\ hist' = [hist EXCEPT !.failures = 0, !.returned = orders',
                                   !.tradesBefore = Len(results.Trades)]
    /\ UNCHANGED <<ledgerVars, broker, results, liq, matcherVars,
                   allocVars, metricsVars, fillVars, feedVars>>

\* mutant of SubmitOrder: the Orders of a tick are taken from the end of the list
SubmitOrderLastFirst ==
    /\ pc = "Orders" /\ orders # <<>>
    /\ LET order == orders[Len(orders)]
           bar == IF order.Symbol \in DOMAIN dataPoint.Bars
                  THEN dataPoint.Bars[order.Symbol] ELSE ZeroBar
       IN \E rnd \in RandomSlippage(broker) :
            LET r == ExecuteOrder(broker, order, bar, rnd)
                submitted == [order |-> order, close |-> bar.Close,
                              affordable |-> CanAfford(portfolio, broker.commissionConfig,
                                                       order, bar.Close),
                              filled |-> r.ok, left |-> Len(orders) - 1,
                              before |-> portfolio]
            IN /\ hist' = [hist EXCEPT !.submitted = submitted,
                                        !.failures = IF r.ok THEN @ ELSE @ + 1,
                                        !.onTrade =
                                            IF r.ok
                                            THEN [trade |-> r.trade,
                                                  ledger |->
                                                    ExecuteTrade(portfolio, r.trade,
                                                                 bar.Close).trades]
                                            ELSE @]
               /\ IF r.ok
                  THEN /\ portfolio' = ExecuteTrade(portfolio, r.trade, bar.Close)
                       /\ last' = [NoCall(portfolio) EXCEPT
                                     !.op = "ExecuteTrade", !.trade = r.trade,
                                     !.price = bar.Close]
                       /\ results' = [results EXCEPT !.Trades = Append(@, r.trade)]
                  ELSE UNCHANGED <<portfolio, last, results>>
    /\ orders' = SubSeq(orders, 1, Len(orders) - 1)
    /\ UNCHANGED <<broker, pc, feedMore, dataPointCount, dataPoint, liq, matcherVars,
                   allocVars, metricsVars, fillVars, feedVars>>

\* mutant of SubmitOrder: a fill failure drops the remaining Orders of the tick
SubmitOrderFailureEndsTick ==
    /\ pc = "Orders" /\ orders # <<>>
    /\ LET order == Head(orders)
           bar == IF order.Symbol \in DOMAIN dataPoint.Bars
                  THEN dataPoint.Bars[order.Symbol] ELSE ZeroBar
       IN \E rnd \in RandomSlippage(broker) :
            LET r == ExecuteOrder(broker, order, bar, rnd)
                submitted == [order |-> order, close |-> bar.Close,
                              affordable |-> CanAfford(portfolio, broker.commissionConfig,
                                                       order, bar.Close),
                              filled |-> r.ok, left |-> Len(orders) - 1,
                              before |-> portfolio]
            IN /\ hist' = [hist EXCEPT !.submitted = submitted,
                                        !.failures = IF r.ok THEN @ ELSE @ + 1,
                                        !.onTrade =
                                            IF r.ok
                                            THEN [trade |-> r.trade,
                                                  ledger |->
                                                    ExecuteTrade(portfolio, r.trade,
                                                                 bar.Close).trades]
                                            ELSE @]
               /\ IF r.ok
                  THEN /\ portfolio' = ExecuteTrade(portfolio, r.trade, bar.Close)
                       /\ last' = [NoCall(portfolio) EXCEPT
                                     !.op = "ExecuteTrade", !.trade = r.trade,
                                     !.price = bar.Close]
                       /\ results' = [results EXCEPT !.Trades = Append(@, r.trade)]
                  ELSE UNCHANGED <<portfolio, last, results>>
    /\ orders' = IF Fillable(Head(orders), IF Head(orders).Symbol \in DOMAIN dataPoint.Bars
                                           THEN dataPoint.Bars[Head(orders).Symbol]
                                           ELSE ZeroBar)
                  THEN Tail(orders) ELSE <<>>
    /\ UNCHANGED <<broker, pc, feedMore, dataPointCount, dataPoint, liq, matcherVars,
                   allocVars, metricsVars, fillVars, feedVars>>

\* engine.go:113-131: the next Order of the tick goes to the Broker; a Trade is
\* applied to the Ledger and recorded
SubmitOrder ==
    /\ pc = "Orders" /\ orders # <<>>
    /\ LET order == Head(orders)
           bar == IF order.Symbol \in DOMAIN dataPoint.Bars
                  THEN dataPoint.Bars[order.Symbol] ELSE ZeroBar
       IN \E rnd \in RandomSlippage(broker) :
            LET r == ExecuteOrder(broker, order, bar, rnd)
                submitted == [order |-> order, close |-> bar.Close,
                              affordable |-> CanAfford(portfolio, broker.commissionConfig,
                                                       order, bar.Close),
                              filled |-> r.ok, left |-> Len(orders) - 1,
                              before |-> portfolio]
            IN /\ hist' = [hist EXCEPT !.submitted = submitted,
                                        !.failures = IF r.ok THEN @ ELSE @ + 1,
                                        !.onTrade =
                                            IF r.ok
                                            THEN [trade |-> r.trade,
                                                  ledger |->
                                                    ExecuteTrade(portfolio, r.trade,
                                                                 bar.Close).trades]
                                            ELSE @]
               /\ IF r.ok
                  THEN /\ portfolio' = ExecuteTrade(portfolio, r.trade, bar.Close)
                       /\ last' = [NoCall(portfolio) EXCEPT
                                     !.op = "ExecuteTrade", !.trade = r.trade,
                                     !.price = bar.Close]
                       /\ results' = [results EXCEPT !.Trades = Append(@, r.trade)]
                  ELSE UNCHANGED <<portfolio, last, results>>
    /\ orders' = Tail(orders)
    /\ UNCHANGED <<broker, pc, feedMore, dataPointCount, dataPoint, liq, matcherVars,
                   allocVars, metricsVars, fillVars, feedVars>>

\* mutant of MarkToMarket: the tick appends no EquityPoint
MarkToMarketNoEquityPoint ==
    /\ pc = "Orders" /\ orders = <<>>
    /\ portfolio' = UpdateMarketValues(portfolio, dataPoint.Bars)
    /\ last' = [NoCall(portfolio) EXCEPT !.op = "UpdateMarketValues",
                                         !.bars = dataPoint.Bars]
    /\ pc' = "Loop"
    /\ UNCHANGED <<broker, feedMore, dataPointCount, dataPoint, orders, results, liq, hist,
                   matcherVars,
                   allocVars, metricsVars, fillVars, feedVars>>

\* engine.go:133-140: mark-to-market and the tick's EquityPoint
MarkToMarket ==
    /\ pc = "Orders" /\ orders = <<>>
    /\ portfolio' = UpdateMarketValues(portfolio, dataPoint.Bars)
    /\ last' = [NoCall(portfolio) EXCEPT !.op = "UpdateMarketValues",
                                         !.bars = dataPoint.Bars]
    /\ results' = [results EXCEPT
                     !.EquityCurve = Append(@, [Timestamp |-> dataPoint.Timestamp,
                                                Value |-> GetTotalValue(portfolio')])]
    /\ pc' = "Loop"
    /\ UNCHANGED <<broker, feedMore, dataPointCount, dataPoint, orders, liq, hist,
                   matcherVars,
                   allocVars, metricsVars, fillVars, feedVars>>

\* engine.go:174-178: CloseAllPostionsAtEnd returns at once when no position is open
BeginLiquidation ==
    /\ pc = "Liquidate"
    /\ IF DOMAIN portfolio.positions = {}
       THEN /\ pc' = "Cleanup"
            /\ liq' = liq
       ELSE /\ pc' = "Liquidating"
            /\ liq' = [todo |-> DOMAIN portfolio.positions, liquidationCount |-> 0]
    /\ UNCHANGED <<ledgerVars, broker, feedMore, dataPointCount, dataPoint, orders,
                   results, hist, matcherVars,
                   allocVars, metricsVars, fillVars, feedVars>>

\* the closing Order of a position (engine.go:200-217)
LiquidationOrder(symbol, position) ==
    [Symbol |-> symbol,
     Side |-> IF position.Quantity > 0 THEN "SELL" ELSE "BUY",
     Type |-> "MARKET",
     Quantity |-> IF position.Quantity > 0 THEN position.Quantity ELSE -position.Quantity,
     Price |-> 0, StopPrice |-> 0, Reason |-> "end_of_backtest_liquidation"]

\* engine.go:183-255: one iteration of the loop over the open positions, in the
\* order the map yields them
LiquidatePosition ==
    /\ pc = "Liquidating" /\ liq.todo # {}
    /\ \E symbol \in liq.todo :
         LET position == portfolio.positions[symbol]
             lastPrice == FDiv(position.MarketValue, position.Quantity)
         IN IF lastPrice <= 0
            THEN /\ liq' = [liq EXCEPT !.todo = @ \ {symbol}]
                 /\ hist' = [hist EXCEPT !.skipped = @ \cup {symbol}]
                 /\ pc' = pc
                 /\ UNCHANGED <<portfolio, last, results>>
            ELSE IF results.EquityCurve = <<>>
            THEN /\ pc' = "Panic"
                 /\ UNCHANGED <<portfolio, last, results, liq, hist>>
            ELSE \E rnd \in RandomSlippage(broker) :
                   LET order == LiquidationOrder(symbol, position)
                       r == ExecuteOrder(broker, order,
                                         FlatBar(lastPrice, LastTimestamp), rnd)
                   IN /\ portfolio' = ExecuteTrade(portfolio, r.trade, lastPrice)
                      /\ last' = [NoCall(portfolio) EXCEPT
                                    !.op = "ExecuteTrade", !.trade = r.trade,
                                    !.price = lastPrice]
                      /\ results' = [results EXCEPT !.Trades = Append(@, r.trade)]
                      /\ liq' = [todo |-> liq.todo \ {symbol},
                                 liquidationCount |-> liq.liquidationCount + 1]
                      /\ hist' = [hist EXCEPT !.liquidations = Append(@, r.trade)]
                      /\ pc' = pc
    /\ UNCHANGED <<broker, feedMore, dataPointCount, dataPoint, orders, matcherVars,
                   allocVars, metricsVars, fillVars, feedVars>>

\* engine.go:257-271: the final EquityPoint, when a position was liquidated
FinishLiquidation ==
    /\ pc = "Liquidating" /\ liq.todo = {}
    /\ results' = IF liq.liquidationCount > 0
                  THEN [results EXCEPT
                          !.EquityCurve = Append(@, [Timestamp |-> LastTimestamp,
                                                     Value |-> GetTotalValue(portfolio)])]
                  ELSE results
    /\ pc' = "Cleanup"
    /\ UNCHANGED <<ledgerVars, broker, feedMore, dataPointCount, dataPoint, orders,
                   liq, hist, matcherVars,
                   allocVars, metricsVars, fillVars, feedVars>>

\* engine.go:149-152: strategy.Cleanup; its error is logged only
StrategyCleanup ==
    /\ pc = "Cleanup"
    /\ pc' = "Finalize"
    /\ UNCHANGED <<ledgerVars, broker, feedMore, dataPointCount, dataPoint, orders,
                   results, liq, hist, matcherVars,
                   allocVars, metricsVars, fillVars, feedVars>>

\* engine.go:153-162: the summary fields
Finalize ==
    /\ pc = "Finalize"
    /\ LET n == Len(results.EquityCurve)
           finalCapital == GetTotalValue(portfolio)
       IN results' = [results EXCEPT
            !.EndDate = IF n > 0 THEN results.EquityCurve[n].Timestamp ELSE @,
            !.StartDate = IF n > 0 THEN results.EquityCurve[1].Timestamp ELSE @,
            !.FinalCapital = finalCapital,
            !.TotalReturn = FDiv((finalCapital - results.InitialCapital) * 100,
                                 results.InitialCapital),
            !.TotalPL = finalCapital - results.InitialCapital]
    /\ pc' = "Finalized"
    /\ UNCHANGED <<ledgerVars, broker, feedMore, dataPointCount, dataPoint, orders,
                   liq, hist, matcherVars,
                   allocVars, metricsVars, fillVars, feedVars>>

NextEngine ==
    \/ StrategyInitialize
    \/ FeedInitialize
    \/ CheckHasData
    \/ FeedError
    \/ FeedNil
    \/ FeedExhausted
    \/ NextDataPoint
    \/ SubmitOrder
    \/ MarkToMarket
    \/ BeginLiquidation
    \/ LiquidatePosition
    \/ FinishLiquidation
    \/ StrategyCleanup
    \/ Finalize

SpecEngine == InitEngine /\ [][NextEngine]_vars

-----------------------------------------------------------------------------
(* SpecMatcher: the trade log of one symbol, processed trade by trade as
   CalculateMetrics does (results.go:453-469) *)

InitMatcher ==
    /\ tracker = NewPositionTracker
    /\ mlast = NoProcessTrade
    /\ IdleLedger
    /\ IdleEngine
    /\ IdleAlloc
    /\ IdleMetrics
    /\ IdleFill
    /\ IdleFeed

MatcherProcessTrade ==
    LET MatcherTrades ==
            { [NoTrade EXCEPT !.Symbol = "A", !.Side = sd, !.Quantity = q, !.Price = pr,
                              !.Commission = c]
                : sd \in {"BUY", "SELL"}, q \in {10, 15}, pr \in {100, 110, 120}, c \in {0, 3} }
    IN
    /\ Len(mlast.log) < MaxMatcherTrades
    /\ \E trade \in MatcherTrades :
         LET r == ProcessTrade(tracker, trade)
         IN /\ tracker' = r.pt
            /\ mlast' = [trade |-> trade, before |-> tracker.OpenTrades,
                         realizedPLs |-> r.realizedPLs, log |-> Append(mlast.log, trade)]
    /\ UNCHANGED <<ledgerVars, engineVars, allocVars, metricsVars, fillVars, feedVars>>

NextMatcher == MatcherProcessTrade

SpecMatcher == InitMatcher /\ [][NextMatcher]_vars

-----------------------------------------------------------------------------
(* SpecAlloc: one AllocateCapital call on any configuration, cash and signal batch *)

\* number of signals in a batch
MaxSignals == 3

Signal(symbol, price, confidence, priority, volatility) ==
    [Symbol |-> symbol, Price |-> price, Confidence |-> confidence,
     Priority |-> priority, Volatility |-> volatility, SignalType |-> "entry"]

InitAlloc ==
    LET \* the batches: signals on different symbols
        AllocBatches ==
            LET \* the signals a strategy may raise in one tick
                AllocSignals ==
                    { Signal("A", 300, 80, 2, 10), Signal("B", 700, 80, 1, 25),
                      Signal("C", 300, 0, 0, 40), Signal("D", 1500, 50, 3, 10),
                      Signal("E", 700, 0, 0, 10) }
            IN
            { q \in SeqsUpTo(AllocSignals, MaxSignals) :
                \A i, j \in 1 .. Len(q) : i # j => q[i].Symbol # q[j].Symbol }
        AllocConfigs ==
            [Method : {"equal", "confidence", "priority", "sequential"},
             MaxPositions : {0, 2},
             PositionSize : {50, 100},
             MinCashBuffer : {0, 1000},
             SlippageBuffer : {0, 2},
             AllowFractional : BOOLEAN,
             VolatilityAdjust : BOOLEAN]
        \* ctx.GetCash()
        AllocCash == {500, 1000, 4000}
    IN
    /\ \E config \in AllocConfigs, cash \in AllocCash, signals \in AllocBatches :
         allocator = [NoAllocation EXCEPT !.config = config, !.cash = cash,
                                          !.signals = signals]
    /\ IdleLedger
    /\ IdleEngine
    /\ IdleMatcher
    /\ IdleMetrics
    /\ IdleFill
    /\ IdleFeed

AllocAllocateCapital ==
    /\ ~allocator.called
    /\ \E sortedSignals \in sortSignals(allocator.config, allocator.signals) :
         allocator' = [allocator EXCEPT
                         !.called = TRUE,
                         !.sorted = sortedSignals,
                         !.emitted = AllocateCapital(allocator.config, allocator.cash,
                                                     allocator.signals, sortedSignals)]
    /\ UNCHANGED <<ledgerVars, engineVars, matcherVars, metricsVars, fillVars, feedVars>>

NextAlloc == AllocAllocateCapital

SpecAlloc == InitAlloc /\ [][NextAlloc]_vars

-----------------------------------------------------------------------------
(* SpecMetrics: one CalculateMetrics call on any Results *)

\* number of trades in Results.Trades
MaxMetricsTrades == 3
\* number of points in Results.EquityCurve
MaxEquityPoints == 3

InitMetrics ==
    LET MetricsTrades ==
            { [NoTrade EXCEPT !.Symbol = "A", !.Side = sd, !.Quantity = q, !.Price = pr,
                              !.Commission = 3]
                : sd \in {"BUY", "SELL"}, q \in {10, 15}, pr \in {100, 120} }
            \cup
            { [NoTrade EXCEPT !.Symbol = "B", !.Side = sd, !.Quantity = 10, !.Price = 100]
                : sd \in {"BUY", "SELL"} }
        MetricsEquityCurves ==
            LET \* the values of the equity points
                MetricsEquityValues == {0, 100, 200}
            IN
            { [i \in 1 .. Len(q) |-> [Timestamp |-> i, Value |-> q[i]]]
                : q \in SeqsUpTo(MetricsEquityValues, MaxEquityPoints) }
        \* Results.MaxDrawdown (a fraction) and Results.TotalReturn (a percentage)
        MetricsMaxDrawdowns == {QInt(0), Rat(1, 10)}
        MetricsTotalReturns == {0, -5}
    IN
    /\ \E trades \in SeqsUpTo(MetricsTrades, MaxMetricsTrades),
          equityCurve \in MetricsEquityCurves,
          maxDrawdown \in MetricsMaxDrawdowns,
          totalReturn \in MetricsTotalReturns :
         metrics = [NoMetrics EXCEPT
                      !.r = [Trades |-> trades, EquityCurve |-> equityCurve,
                             MaxDrawdown |-> maxDrawdown, TotalReturn |-> totalReturn]]
    /\ IdleLedger
    /\ IdleEngine
    /\ IdleMatcher
    /\ IdleAlloc
    /\ IdleFill
    /\ IdleFeed

MetricsCalculateMetrics ==
    /\ ~metrics.called
    /\ metrics' = [metrics EXCEPT !.called = TRUE, !.Metrics = CalculateMetrics(metrics.r)]
    /\ UNCHANGED <<ledgerVars, engineVars, matcherVars, allocVars, fillVars, feedVars>>

NextMetrics == MetricsCalculateMetrics

SpecMetrics == InitMetrics /\ [][NextMetrics]_vars

-----------------------------------------------------------------------------
(* SpecBroker: ExecuteOrder, CanExecuteOrder and GetExecutionPrice, each called once, in
   any order, on one order and one bar.  Money is in units of 1/100 dollar. *)

\* order.Quantity: the second is above the 50,138 shares at which the FINRA TAF is capped
BrokerQuantities == {100, 55000}

\* order.Price and order.StopPrice
BrokerOrderPrices == {90, 100, 110}

InitBroker ==
    LET \* NewBroker's commission and slippage configuration
        BrokerConfigs ==
            { [commissionConfig |-> cc, slippage |-> sl[1], maxSlippage |-> sl[2]]
                : cc \in { [Type |-> "percentage", Rate |-> <<1, 1000>>],
                           [Type |-> "fixed", Rate |-> <<500, 1>>] },
                  sl \in { <<0, 0>>, <<10, 0>>, <<10, 2>> } }
        BrokerOrders ==
            { [MarketOrder("A", sd, q) EXCEPT !.Type = t]
                : sd \in {"BUY", "SELL"}, q \in BrokerQuantities, t \in {"MARKET", "STOP_LIMIT"} }
            \cup { LimitOrder("A", sd, q, pr)
                     : sd \in {"BUY", "SELL"}, q \in BrokerQuantities, pr \in BrokerOrderPrices }
            \cup { StopOrder("A", sd, q, pr)
                     : sd \in {"BUY", "SELL"}, q \in BrokerQuantities, pr \in BrokerOrderPrices }
        \* currentBar: low <= close <= high
        BrokerBars ==
            { [FlatBar(100, 1) EXCEPT !.Low = hl[1], !.High = hl[2]]
                : hl \in { <<100, 100>>, <<95, 105>>, <<90, 110>>, <<80, 120>> } }
    IN
    /\ \E b \in BrokerConfigs, order \in BrokerOrders, currentBar \in BrokerBars :
         fill = [NoFill EXCEPT !.broker = b, !.order = order, !.bar = currentBar]
    /\ IdleLedger
    /\ IdleEngine
    /\ IdleMatcher
    /\ IdleAlloc
    /\ IdleMetrics
    /\ IdleFeed

BrokerExecuteOrder ==
    /\ ~fill.exec.called
    /\ \E rnd \in RandomSlippage(fill.broker) :
         LET r == ExecuteOrder(fill.broker, fill.order, fill.bar, rnd)
         IN fill' = [fill EXCEPT !.exec = [called |-> TRUE,
                                           totalSlippage |-> fill.broker.slippage + rnd,
                                           ok |-> r.ok, trade |-> r.trade]]
    /\ UNCHANGED <<ledgerVars, engineVars, matcherVars, allocVars, metricsVars, feedVars>>

BrokerCanExecuteOrder ==
    /\ ~fill.can.called
    /\ fill' = [fill EXCEPT !.can = [called |-> TRUE,
                                     ok |-> CanExecuteOrder(fill.order, fill.bar)]]
    /\ UNCHANGED <<ledgerVars, engineVars, matcherVars, allocVars, metricsVars, feedVars>>

BrokerGetExecutionPrice ==
    /\ ~fill.quote.called
    /\ \E rnd \in RandomSlippage(fill.broker) :
         LET r == GetExecutionPrice(fill.broker, fill.order, fill.bar, rnd)
         IN fill' = [fill EXCEPT !.quote = [called |-> TRUE, ok |-> r.ok,
                                            price |-> r.price]]
    /\ UNCHANGED <<ledgerVars, engineVars, matcherVars, allocVars, metricsVars, feedVars>>

NextBroker == BrokerExecuteOrder \/ BrokerCanExecuteOrder \/ BrokerGetExecutionPrice

SpecBroker == InitBroker /\ [][NextBroker]_vars

-----------------------------------------------------------------------------
(* SpecFeed: any sequence of calls on a HistoricalFeed *)

\* number of calls on the feed
MaxFeedCalls == 5
\* number of bars the provider returns for a symbol
MaxBars == 3

FeedTimestamps == 1 .. 3

InitFeed ==
    LET \* hf.symbols
        FeedSymbols == { <<"A">>, <<"A", "B">> }
        \* what GetBars returns for a symbol: bars in any order, timestamps possibly repeated
        FeedBars ==
            { [i \in 1 .. Len(q) |-> FlatBar(100 + i, q[i])]
                : q \in SeqsUpTo(FeedTimestamps, MaxBars) }
    IN
    /\ \E symbols \in FeedSymbols :
         \E provider \in [Range(symbols) -> FeedBars] :
           feed = [hf |-> NewHistoricalFeed(provider, symbols), call |-> NoFeedCall]
    /\ IdleLedger
    /\ IdleEngine
    /\ IdleMatcher
    /\ IdleAlloc
    /\ IdleMetrics
    /\ IdleFill

\* Initialize: a GetBars call may fail, and then the feed is left as it was
HistoricalInitialize ==
    /\ feed.call.n < MaxFeedCalls
    /\ \E err \in IF feed.hf.initialized THEN {FALSE} ELSE BOOLEAN :
         feed' = [hf |-> IF err THEN feed.hf ELSE Initialize(feed.hf),
                  call |-> [feed.call EXCEPT !.n = @ + 1, !.op = "Initialize",
                                             !.err = err]]
    /\ UNCHANGED <<ledgerVars, engineVars, matcherVars, allocVars, metricsVars, fillVars>>

\* GetNextDataPoint: it initializes the feed first when needed, which may fail
HistoricalGetNextDataPoint ==
    /\ feed.call.n < MaxFeedCalls
    /\ \E err \in IF feed.hf.initialized THEN {FALSE} ELSE BOOLEAN :
         LET r == GetNextDataPoint(Initialize(feed.hf))
         IN feed' = [hf |-> IF err THEN feed.hf ELSE r.hf,
                     call |-> [feed.call EXCEPT
                                 !.n = @ + 1, !.op = "GetNextDataPoint", !.err = err,
                                 !.dataPoint = IF err THEN <<>> ELSE r.dataPoint,
                                 !.yielded = IF err THEN @ ELSE @ \o r.dataPoint]]
    /\ UNCHANGED <<ledgerVars, engineVars, matcherVars, allocVars, metricsVars, fillVars>>

HistoricalHasMoreData ==
    /\ feed.call.n < MaxFeedCalls
    /\ feed' = [feed EXCEPT !.call = [@ EXCEPT !.n = @ + 1, !.op = "HasMoreData",
                                               !.err = FALSE,
                                               !.hasMore = HasMoreData(feed.hf)]]
    /\ UNCHANGED <<ledgerVars, engineVars, matcherVars, allocVars, metricsVars, fillVars>>

HistoricalReset ==
    /\ feed.call.n < MaxFeedCalls
    /\ feed' = [hf |-> Reset(feed.hf),
                call |-> [feed.call EXCEPT !.n = @ + 1, !.op = "Reset", !.err = FALSE,
                                           !.yielded = <<>>, !.resets = @ + 1]]
    /\ UNCHANGED <<ledgerVars, engineVars, matcherVars, allocVars, metricsVars, fillVars>>

NextFeed ==
    \/ HistoricalInitialize
    \/ HistoricalGetNextDataPoint
    \/ HistoricalHasMoreData
    \/ HistoricalReset

SpecFeed == InitFeed /\ [][NextFeed]_vars

-----------------------------------------------------------------------------
(* Claims about the Ledger and the Engine *)

\* the mark value the Ledger holds for a symbol: 0 when it has no active position
MarkValueOf(s) ==
    IF s \in DOMAIN portfolio.positions THEN portfolio.positions[s].MarketValue ELSE 0

\* cash plus the mark values of the active positions
CashPlusMarkValues == portfolio.cash + MarkValueOf("A") + MarkValueOf("B")

\* the fees of a trade that are not its slippage cost
FeesOf(trade) == trade.Commission + trade.SecFee + trade.FinraTaf

\* C1 (as claimed): after every ExecuteTrade, cash plus the mark values of the active
\* positions equals the Ledger's reported total value.
C1_CashConservationAfterTrade ==
    last.op = "ExecuteTrade" => CashPlusMarkValues = GetTotalValue(portfolio)

\* the trades of the results log that carry the liquidation tag
RECURSIVE LiquidationTrades(_)
LiquidationTrades(trades) ==
    IF trades = <<>> THEN <<>>
    ELSE IF Head(trades).Reason = "end_of_backtest_liquidation"
    THEN <<Head(trades)>> \o LiquidationTrades(Tail(trades))
    ELSE LiquidationTrades(Tail(trades))

\* the run is past end-of-run liquidation, which it entered
AfterLiquidation == pc \in {"Cleanup", "Finalize", "Finalized"} /\ dataPointCount > 0

\* C2 (as claimed): when the run ended with open positions and they were liquidated, the
\* final EquityPoint and the reported final capital equal the Ledger's cash after the
\* liquidation trades, since no position remains.
C2_FinalEquityIsCashAfterLiquidation ==
    (pc = "Finalized" /\ LiquidationTrades(results.Trades) # <<>>
       /\ DOMAIN portfolio.positions = {})
    => /\ results.EquityCurve[Len(results.EquityCurve)].Value = portfolio.cash
       /\ results.FinalCapital = portfolio.cash

\* the last mark price of a position, as liquidation derives it
LastMarkPrice(position) == FDiv(position.MarketValue, position.Quantity)

\* the positions open at exhaustion that have a positive last mark price
Liquidatable == { s \in DOMAIN hist.open : LastMarkPrice(hist.open[s]) > 0 }

\* the indices of the liquidation trades for a symbol
LiquidationsOf(s) ==
    LET lt == LiquidationTrades(results.Trades)
    IN { i \in 1 .. Len(lt) : lt[i].Symbol = s }

\* the liquidation Trades are exactly one per position open at exhaustion with a
\* positive last mark price: Sell for a long, Buy for a short, quantity the absolute
\* position quantity
OneLiquidationTradeEach ==
    LET lt == LiquidationTrades(results.Trades)
    IN /\ \A s \in Liquidatable :
            /\ Cardinality(LiquidationsOf(s)) = 1
            /\ \A i \in LiquidationsOf(s) :
                 /\ lt[i].Side = IF hist.open[s].Quantity > 0 THEN "SELL" ELSE "BUY"
                 /\ lt[i].Quantity = Abs(hist.open[s].Quantity)
       /\ Len(lt) = Cardinality(Liquidatable)

\* C3 (as claimed): if at least one DataPoint was processed, every position open at
\* exhaustion with a positive last mark price gets exactly one liquidation Trade (Sell
\* for a long, Buy for a short, quantity the absolute position quantity, tagged as
\* liquidation), and after liquidation the Ledger's active position set is empty.
C3_LiquidationLeavesNoPosition ==
    AfterLiquidation => OneLiquidationTradeEach /\ DOMAIN portfolio.positions = {}

\* the part of the liquidation contract the code keeps: the Trades are as stated, and
\* the positions left active are exactly those without a positive last mark price
LiquidationTradesAsStated ==
    AfterLiquidation =>
      /\ OneLiquidationTradeEach
      /\ DOMAIN portfolio.positions = (DOMAIN hist.open) \ Liquidatable

\* C4 (as claimed): an Order that fails the Ledger's affordability check produces no
\* Trade and leaves the Ledger unchanged.
C4_UnaffordableOrderSkipped ==
    (hist.submitted.order # NoOrder /\ pc = "Orders" /\ ~hist.submitted.affordable)
    => /\ ~hist.submitted.filled
       /\ portfolio = hist.submitted.before

\* C7 (as claimed): before liquidation the equity curve has one EquityPoint for every
\* DataPoint pulled, ticks with a Strategy error included.
C7_OneEquityPointPerDataPoint ==
    pc = "Loop" => Len(results.EquityCurve) = dataPointCount

\* C8: immediately after UpdateMarketValues, total value is cash plus the mark values of
\* the active positions, whatever bars were supplied.
C8_MarkToMarketTotal ==
    last.op = "UpdateMarketValues" => GetTotalValue(portfolio) = CashPlusMarkValues

\* C8 witness: a mark-to-market with two positions held, one without a bar, the other
\* re-marked to a new value
C8_Witness ==
    /\ last.op = "UpdateMarketValues"
    /\ DOMAIN portfolio.positions = {"A", "B"}
    /\ \E s \in Symbols : s \notin DOMAIN last.bars
    /\ \E s \in DOMAIN last.bars :
         portfolio.positions[s].MarketValue # last.before.positions[s].MarketValue

\* C9 (as claimed): a Buy lowers cash by quantity x fill price plus commission,
\* regulatory fee and activity fee, a Sell raises it by quantity x fill price minus
\* them; the slippage cost is not charged.
C9_CashAccounting ==
    last.op = "ExecuteTrade" =>
      LET trade == last.trade
      IN portfolio.cash =
           IF trade.Side = "BUY"
           THEN last.before.cash - (trade.Quantity * trade.Price + FeesOf(trade))
           ELSE last.before.cash + (trade.Quantity * trade.Price - FeesOf(trade))

\* C10: after any ExecuteTrade no active position has quantity 0.
C10_NoZeroQuantityPosition ==
    last.op = "ExecuteTrade" =>
      \A s \in DOMAIN portfolio.positions : portfolio.positions[s].Quantity # 0

\* C10 witness: the trade netted an active position to zero and it is gone
C10_Witness ==
    /\ last.op = "ExecuteTrade"
    /\ last.trade.Symbol \in DOMAIN last.before.positions
    /\ last.trade.Quantity = Abs(last.before.positions[last.trade.Symbol].Quantity)
    /\ last.trade.Symbol \notin DOMAIN portfolio.positions

-----------------------------------------------------------------------------
(* Claims about the FIFO matcher *)

\* FIFO matching as specified: quantity remaining is matched against the leading lots of
\* one sign (1: long lots, -1: short lots), oldest first, each lot fully consumed before
\* the next is touched.  [open: the lots left, remaining: the unmatched quantity,
\* matched: <<entry price, matched quantity>> per matched lot]
RECURSIVE FifoMatch(_, _, _)
FifoMatch(open, sign, remaining) ==
    IF open = <<>> \/ remaining = 0 \/ Head(open).Quantity * sign <= 0
    THEN [open |-> open, remaining |-> remaining, matched |-> <<>>]
    ELSE LET lot == Head(open)
             m == Min(Abs(lot.Quantity), remaining)
             rest == IF m = Abs(lot.Quantity) THEN Tail(open)
                     ELSE <<[lot EXCEPT !.Quantity = @ - sign * m]>> \o Tail(open)
             r == FifoMatch(rest, sign, remaining - m)
         IN [r EXCEPT !.matched = <<(<<lot.EntryPrice, m>>)>> \o @]

\* quantity and entry price of each open lot
LotsOf(open) == [i \in 1 .. Len(open) |-> <<open[i].Quantity, open[i].EntryPrice>>]

\* the lots FIFO matching leaves, with the unmatched remainder opened as a new lot
FifoLots(open, sign, trade) ==
    LET r == FifoMatch(open, sign, trade.Quantity)
    IN IF r.remaining > 0
       THEN Append(LotsOf(r.open), <<-sign * r.remaining, trade.Price>>)
       ELSE LotsOf(r.open)

NoCommissions == \A i \in 1 .. Len(mlast.log) : mlast.log[i].Commission = 0

\* C5 (as claimed): a Buy first covers the existing short lots oldest first, one realized
\* sample per matched lot, and only the unmatched remainder opens a new long lot.
C5_BuyCoversShortLots ==
    mlast.trade.Side = "BUY" =>
      LET r == FifoMatch(mlast.before, -1, mlast.trade.Quantity)
      IN /\ Len(mlast.realizedPLs) = Len(r.matched)
         /\ LotsOf(tracker.OpenTrades) = FifoLots(mlast.before, -1, mlast.trade)

\* C6 (as claimed): a Sell closes the long lots oldest first, one realized sample of
\* (sell price - lot entry price) x matched quantity per lot before commissions, and an
\* unmatched remainder opens a short lot; [Buy 10@100, Buy 10@110, Sell 15@120] without
\* commissions realizes 250 and leaves one long lot of 5 @ 110.
C6_SellClosesLongLots ==
    mlast.trade.Side = "SELL" =>
      LET r == FifoMatch(mlast.before, 1, mlast.trade.Quantity)
      IN /\ Len(mlast.realizedPLs) = Len(r.matched)
         /\ NoCommissions =>
              \A i \in 1 .. Len(r.matched) :
                i <= Len(mlast.realizedPLs) =>
                  mlast.realizedPLs[i]
                    = (mlast.trade.Price - r.matched[i][1]) * r.matched[i][2]
         /\ LotsOf(tracker.OpenTrades) = FifoLots(mlast.before, 1, mlast.trade)

\* the fixed sequence of C6
ExampleTrade(side, quantity, price) ==
    [NoTrade EXCEPT !.Symbol = "A", !.Side = side, !.Quantity = quantity, !.Price = price]

\* the instance C6 names: it holds of the code, only long lots being in the queue
C6_Example ==
    mlast.log = <<ExampleTrade("BUY", 10, 100), ExampleTrade("BUY", 10, 110),
                  ExampleTrade("SELL", 15, 120)>>
    => /\ SumSeq(mlast.realizedPLs) = 250
       /\ Len(mlast.realizedPLs) = 2
       /\ LotsOf(tracker.OpenTrades) = <<(<<5, 110>>)>>

-----------------------------------------------------------------------------
(* Claims about the position arithmetic of ExecuteTrade *)

\* the position of the traded symbol before the last ExecuteTrade: a fresh one when the
\* symbol was not held
PositionBefore ==
    IF last.trade.Symbol \in DOMAIN last.before.positions
    THEN last.before.positions[last.trade.Symbol] ELSE ZeroPosition

\* the position of the traded symbol after the last ExecuteTrade
PositionAfter ==
    IF last.trade.Symbol \in DOMAIN portfolio.positions
    THEN portfolio.positions[last.trade.Symbol] ELSE ZeroPosition

\* the last ExecuteTrade reversed the position: it traded more than was held, against it
Reversal ==
    /\ last.op = "ExecuteTrade"
    /\ \/ last.trade.Side = "SELL" /\ PositionBefore.Quantity > 0
       \/ last.trade.Side = "BUY" /\ PositionBefore.Quantity < 0
    /\ last.trade.Quantity > Abs(PositionBefore.Quantity)

\* the last ExecuteTrade opened the position or extended it in its direction
Extension ==
    /\ last.op = "ExecuteTrade"
    /\ \/ last.trade.Side = "BUY" /\ PositionBefore.Quantity >= 0
       \/ last.trade.Side = "SELL" /\ PositionBefore.Quantity <= 0

\* C11: a Sell of S against a long L < S at average A realizes (fill price - A) x L and
\* leaves a short of -(S - L) at the fill price; a Buy of B against a short of size
\* H < B realizes (A - fill price) x H and leaves a long of B - H at the fill price.
C11_ReversalCorrectness ==
    Reversal =>
      LET held == Abs(PositionBefore.Quantity)
          rest == last.trade.Quantity - held
      IN /\ PositionAfter.AvgPrice = last.trade.Price
         /\ IF last.trade.Side = "SELL"
            THEN /\ PositionAfter.Quantity = -rest
                 /\ PositionAfter.RealizedPL - PositionBefore.RealizedPL
                      = (last.trade.Price - PositionBefore.AvgPrice) * held
            ELSE /\ PositionAfter.Quantity = rest
                 /\ PositionAfter.RealizedPL - PositionBefore.RealizedPL
                      = (PositionBefore.AvgPrice - last.trade.Price) * held

\* C11 witness: the example, long 10 @ 100 sold 15 @ 120: 200 realized, short 5 @ 120
C11_Witness ==
    /\ Reversal
    /\ last.trade.Side = "SELL" /\ last.trade.Quantity = 15 /\ last.trade.Price = 120
    /\ PositionBefore.Quantity = 10 /\ PositionBefore.AvgPrice = 100
    /\ PositionAfter.Quantity = -5 /\ PositionAfter.AvgPrice = 120
    /\ PositionAfter.RealizedPL - PositionBefore.RealizedPL = 200

\* C12: a Buy of q at p into a position of quantity Q >= 0 at average A gives quantity
\* Q + q at average (A x Q + p x q) / (Q + q); a Sell into a position of quantity <= 0
\* extends the short with the symmetric weighted average.
C12_WeightedAverageBasis ==
    Extension =>
      LET held == Abs(PositionBefore.Quantity)
          total == held + last.trade.Quantity
      IN /\ PositionAfter.Quantity = IF last.trade.Side = "BUY" THEN total ELSE -total
         /\ PositionAfter.AvgPrice
              = FDiv(PositionBefore.AvgPrice * held
                       + last.trade.Price * last.trade.Quantity, total)

\* C12 witness: the example, 10 @ 100 then 10 more @ 120: 20 units at average 110
C12_Witness ==
    /\ Extension
    /\ last.trade.Side = "BUY" /\ last.trade.Quantity = 10 /\ last.trade.Price = 120
    /\ PositionBefore.Quantity = 10 /\ PositionBefore.AvgPrice = 100
    /\ PositionAfter.Quantity = 20 /\ PositionAfter.AvgPrice = 110

\* C13: a trade that opens or extends a position in its direction leaves the position's
\* cumulative realized P&L unchanged.
C13_RealizedPLFrame ==
    Extension => PositionAfter.RealizedPL = PositionBefore.RealizedPL

\* C13 witness: a short position that carries realized P&L from a reversal is extended
C13_Witness ==
    /\ Extension
    /\ last.trade.Side = "SELL"
    /\ PositionBefore.Quantity < 0
    /\ PositionBefore.RealizedPL # 0
    /\ PositionAfter.RealizedPL = PositionBefore.RealizedPL

\* C14: across any sequence of UpdateMarketValues calls interleaved with trades, the
\* Ledger's maxDrawdown never decreases and its peak value never decreases.
C14_DrawdownMonotone ==
    [][/\ ~FracGT(portfolio.maxDrawdown, portfolio'.maxDrawdown)
       /\ portfolio'.peakValue >= portfolio.peakValue]_vars

\* C14 witness: a mark-to-market after a trade at which the current drawdown recovered
\* while the maximum drawdown, above zero, stayed
C14_Witness ==
    /\ last.op = "UpdateMarketValues"
    /\ portfolio.trades # <<>>
    /\ FracGT(last.before.currentDrawdown, portfolio.currentDrawdown)
    /\ FracGT(portfolio.maxDrawdown, FracZero)
    /\ portfolio.maxDrawdown = last.before.maxDrawdown

-----------------------------------------------------------------------------
(* Claims about the error handling and the ordering of Engine.Run *)

\* C15: a Strategy OnDataPoint error is not fatal: the tick produces no Trade and no
\* Ledger change, and the Engine is back at the head of the loop, where it pulls the
\* next DataPoint or ends the run normally; it never aborts the run.
C15_StrategyErrorNotFatal ==
    [][hist'.errorTicks # hist.errorTicks =>
         /\ portfolio' = portfolio
         /\ results'.Trades = results.Trades
         /\ dataPointCount' = dataPointCount + 1
         /\ pc' = "Loop"]_vars

\* C15 witness: a run whose first tick ended in a Strategy error traded on the second
\* tick, recorded that tick's EquityPoint and returned success
C15_Witness ==
    /\ pc = "Finalized"
    /\ hist.errorTicks = 1 /\ dataPointCount = 2
    /\ \E i \in 1 .. Len(results.Trades) :
         results.Trades[i].Timestamp = 2 /\ results.Trades[i].Reason = "signal"
    /\ \E i \in 1 .. Len(results.EquityCurve) : results.EquityCurve[i].Timestamp = 2

\* the Bar the Engine hands to the Broker for an Order of the current DataPoint
BarFor(order) ==
    IF order.Symbol \in DOMAIN dataPoint.Bars THEN dataPoint.Bars[order.Symbol] ELSE ZeroBar

\* C16: an Order the Broker cannot fill (limit or stop not reached, unsupported type)
\* produces no Trade and no Ledger change, and the remaining Orders of the tick are
\* still to be submitted: a fillable one among them is applied when its turn comes.
C16_FillFailureSkipsOneOrder ==
    [][(pc = "Orders" /\ orders # <<>> /\ pc' = "Orders" /\ orders' # orders) =>
         /\ orders' = Tail(orders)
         /\ IF Fillable(Head(orders), BarFor(Head(orders)))
            THEN /\ Len(results'.Trades) = Len(results.Trades) + 1
                 /\ results'.Trades[Len(results'.Trades)].Symbol = Head(orders).Symbol
                 /\ portfolio'.trades = Append(portfolio.trades,
                                               results'.Trades[Len(results'.Trades)])
            ELSE /\ results' = results
                 /\ portfolio' = portfolio]_vars

\* C16 witness: in one tick an Order failed at the Broker and a later one was filled
\* and applied
C16_Witness ==
    /\ pc = "Orders"
    /\ hist.failures = 1
    /\ hist.submitted.filled /\ hist.submitted.left = 0
    /\ results.Trades # <<>>
    /\ results.Trades[Len(results.Trades)].Timestamp = dataPoint.Timestamp
    /\ portfolio # hist.submitted.before

\* the positions of Run before the loop over the feed
Setup == {"Created", "FeedInitialize", "HasData"}

\* C17: a run that fails in Strategy initialization, in data-source initialization or
\* on a data source without data returns an error without having invoked OnDataPoint
\* and with an empty trade log and equity curve, and nothing happens afterwards; a data
\* source without data always ends the run so.
C17_FatalSetupErrors ==
    [][/\ (pc \in Setup /\ pc' = "Aborted") =>
            /\ dataPointCount' = 0
            /\ hist'.errorTicks = 0
            /\ results'.Trades = <<>>
            /\ results'.EquityCurve = <<>>
            /\ portfolio'.trades = <<>>
       /\ (pc = "HasData" /\ ~feedMore) => pc' = "Aborted"
       /\ pc # "Aborted"]_vars

\* C17 witness: the data source was initialized and reported no data; the run aborted
C17_Witness ==
    /\ pc = "Aborted"
    /\ ~feedMore
    /\ dataPointCount = 0
    /\ results.Trades = <<>> /\ results.EquityCurve = <<>>

\* the Broker can fill the Order against the Bar of the current DataPoint
FillableNow(order) == Fillable(order, BarFor(order))

\* what identifies the Order in its Trade
OrderKey(x) == <<x.Symbol, x.Side, x.Quantity>>

KeysOf(q) == [i \in 1 .. Len(q) |-> OrderKey(q[i])]

\* the Orders of the current tick already submitted
Processed == SubSeq(hist.returned, 1, Len(hist.returned) - Len(orders))

\* the Trades the current tick has appended to the results log
TickTrades == SubSeq(results.Trades, hist.tradesBefore + 1, Len(results.Trades))

\* C18: within a tick the Trades are applied to the Ledger and appended to the results
\* log in the order the Strategy returned their Orders; a Trade is in the Ledger when
\* OnTrade is notified of it and before the next Order is submitted; the DataPoint is
\* marked to market only when all its Orders have been processed.
C18_OrderingWithinTick ==
    /\ [](pc \in {"Orders", "Loop"} =>
            /\ KeysOf(TickTrades) = KeysOf(SelectSeq(Processed, FillableNow))
            /\ portfolio.trades = results.Trades
            /\ hist.onTrade.trade # NoTrade =>
                 /\ hist.onTrade.ledger # <<>>
                 /\ hist.onTrade.ledger[Len(hist.onTrade.ledger)] = hist.onTrade.trade)
    /\ [][(pc = "Orders" /\ Len(results'.EquityCurve) # Len(results.EquityCurve)) =>
            /\ orders = <<>>
            /\ results'.Trades = results.Trades]_vars

\* C18 witness: a tick whose two Orders, on different symbols, were both filled, with
\* the two Trades in the Ledger and in the log in that order, and then marked to market
C18_Witness ==
    /\ pc = "Loop" /\ dataPointCount > 0
    /\ Len(hist.returned) = 2 /\ Len(TickTrades) = 2
    /\ hist.returned[1].Symbol = "B" /\ hist.returned[2].Symbol = "A"
    /\ KeysOf(TickTrades) = KeysOf(hist.returned)
    /\ results.EquityCurve # <<>>
    /\ results.EquityCurve[Len(results.EquityCurve)].Timestamp = dataPoint.Timestamp

\* the phase of Run a position belongs to, in the order of the lifecycle
Phase(at) ==
    CASE at = "Created" -> 0
      [] at = "FeedInitialize" -> 1
      [] at = "HasData" -> 1
      [] at \in {"Loop", "Orders"} -> 2
      [] at \in {"Liquidate", "Liquidating"} -> 3
      [] at = "Cleanup" -> 4
      [] at = "Finalize" -> 5
      [] OTHER -> 6

\* C19: in a run that does not fail, the phases follow one another in the order
\* Strategy.Initialize, feed Initialize, DataPoint processing, liquidation (entered only
\* from the head of the loop at exhaustion and only after at least one DataPoint),
\* Strategy.Cleanup (once, never failing the run), finalization; no DataPoint is
\* processed once liquidation has begun.
C19_LifecycleOrder ==
    [][(pc' # pc /\ pc' \notin {"Aborted", "Panic"}) =>
         /\ Phase(pc') >= Phase(pc)
         /\ Phase(pc') > Phase(pc) + 1 => (pc = "Loop" /\ pc' = "Cleanup" /\ dataPointCount = 0)
         /\ pc' = "Liquidate" =>
              /\ pc = "Loop" /\ orders = <<>>
              /\ dataPointCount > 0
              /\ ~feedMore \/ dataPoint' = dataPoint
         /\ Phase(pc) >= 3 => (dataPointCount' = dataPointCount /\ dataPoint' = dataPoint)
         /\ pc = "Cleanup" => pc' = "Finalize"
         /\ pc' = "Finalize" => pc = "Cleanup"
         /\ pc' = "Finalized" => pc = "Finalize"]_vars

\* C19 witness: a run went through every phase: two DataPoints, a liquidation, Cleanup
\* and finalization
C19_Witness ==
    /\ pc = "Finalized"
    /\ dataPointCount = 2
    /\ hist.liquidations # <<>>
    /\ results.FinalCapital # 0

-----------------------------------------------------------------------------
(* Claims about the Capital Allocator *)

\* Σ order.quantity x signal price over the emitted orders, in 1/SharesScale
RECURSIVE EmittedValue(_)
EmittedValue(emitted) ==
    IF emitted = <<>> THEN 0
    ELSE Head(emitted).order.Quantity * Head(emitted).signal.Price
           + EmittedValue(Tail(emitted))

\* C20: under every policy, for every signal batch and every configuration with a
\* position-size fraction in [0, 1], the sum over the emitted orders of quantity x signal
\* price never exceeds tradableCash = cash x (1 - slippageBuffer).
C20_AllocatorCashBound ==
    allocator.called =>
      EmittedValue(allocator.emitted)
        <= TradableCash(allocator.config, allocator.cash) * SharesScale

\* C20 witness: several orders were emitted that together take at least nine tenths of
\* the tradable cash
C20_Witness ==
    /\ allocator.called
    /\ Len(allocator.emitted) >= 2
    /\ 10 * EmittedValue(allocator.emitted)
         >= 9 * TradableCash(allocator.config, allocator.cash) * SharesScale

\* C21: when the cash is at or below the configured minimum cash buffer, AllocateCapital
\* emits zero orders for any non-empty signal batch, under every policy.
C21_NoOrdersAtOrBelowBuffer ==
    (/\ allocator.called
     /\ allocator.signals # <<>>
     /\ allocator.cash <= allocator.config.MinCashBuffer)
      => allocator.emitted = <<>>

\* C21 witness: AllocateCapital was called on a non-empty batch with cash equal to a
\* positive minimum buffer
C21_Witness ==
    /\ allocator.called
    /\ allocator.signals # <<>>
    /\ allocator.config.MinCashBuffer > 0
    /\ allocator.cash = allocator.config.MinCashBuffer
    /\ allocator.emitted = <<>>

-----------------------------------------------------------------------------
(* Claims about the Performance Analyzer *)

\* the realized samples CalculateMetrics collects from the log
MetricsSamples == TradeResults(metrics.r.Trades, [s \in Symbols |-> NewPositionTracker])

\* the number of lots FIFO matching as specified matches over a trade log: a Sell matches
\* the long lots of its symbol, a Buy the short lots, the remainder opens a lot
RECURSIVE FifoMatched(_, _)
FifoMatched(trades, queues) ==
    IF trades = <<>> THEN 0
    ELSE LET trade == Head(trades)
             sign == IF trade.Side = "SELL" THEN 1 ELSE -1
             r == FifoMatch(queues[trade.Symbol], sign, trade.Quantity)
             open == IF r.remaining > 0
                     THEN Append(r.open, OpenPosition(-sign * r.remaining, trade.Price,
                                                      trade.Timestamp, 0))
                     ELSE r.open
         IN Len(r.matched)
              + FifoMatched(Tail(trades), [queues EXCEPT ![trade.Symbol] = open])

MetricsMatches == FifoMatched(metrics.r.Trades, [s \in Symbols |-> <<>>])

\* the trade statistics of the PerformanceMetrics are all 0
TradeStatisticsZero ==
    /\ metrics.Metrics.TotalTrades = 0
    /\ metrics.Metrics.WinningTrades = 0
    /\ metrics.Metrics.LosingTrades = 0
    /\ metrics.Metrics.WinRate = QInt(0)
    /\ metrics.Metrics.AvgWin = QInt(0)
    /\ metrics.Metrics.AvgLoss = QInt(0)
    /\ metrics.Metrics.LargestWin = 0
    /\ metrics.Metrics.LargestLoss = 0
    /\ metrics.Metrics.ProfitFactor = QInt(0)

\* the risk ratios of the PerformanceMetrics are all 0
RiskRatiosZero ==
    /\ metrics.Metrics.SharpeRatio = QInt(0)
    /\ metrics.Metrics.SortinoRatio = QInt(0)
    /\ metrics.Metrics.CalmarRatio = QInt(0)

\* C22 (as claimed): when the trade log yields no completed round-trip match, a
\* non-empty log of opening trades included, every performance metric (total trades, win
\* rate, averages, largest win and loss, profit factor, Sharpe, Sortino, Calmar) is 0.
C22_MetricDegeneracy ==
    (metrics.called /\ MetricsSamples = <<>> /\ MetricsMatches = 0)
      => (TradeStatisticsZero /\ RiskRatiosZero)

\* what holds of the code: without a match the trade statistics are 0, and with an empty
\* log every metric is 0
MetricDegeneracyOfTradeStatistics ==
    /\ (metrics.called /\ MetricsSamples = <<>>) => TradeStatisticsZero
    /\ (metrics.called /\ metrics.r.Trades = <<>>) => RiskRatiosZero

\* C23 (as claimed): the reported total trade count is the number of realized samples of
\* FIFO matching, one per lot matched by a closing trade, not the number of raw trades,
\* and winning count + losing count never exceeds the total.
C23_TradeCountIsMatchCount ==
    metrics.called =>
      /\ metrics.Metrics.TotalTrades = MetricsMatches
      /\ metrics.Metrics.WinningTrades + metrics.Metrics.LosingTrades
           <= metrics.Metrics.TotalTrades

\* no trade of the log finds a short lot or leaves one: every Sell is covered by the
\* long lots open before it
RECURSIVE LongOnly(_, _)
LongOnly(trades, held) ==
    \/ trades = <<>>
    \/ LET trade == Head(trades)
           q == IF trade.Side = "BUY" THEN trade.Quantity ELSE -trade.Quantity
       IN /\ held[trade.Symbol] + q >= 0
          /\ LongOnly(Tail(trades), [held EXCEPT ![trade.Symbol] = @ + q])

\* what holds of the code: on a log that never goes short the count is the number of
\* matched lots, and winning + losing never exceeds the total on any log
TradeCountOnLongOnlyLogs ==
    metrics.called =>
      /\ LongOnly(metrics.r.Trades, [s \in Symbols |-> 0])
           => metrics.Metrics.TotalTrades = MetricsMatches
      /\ metrics.Metrics.TotalTrades = Len(MetricsSamples)
      /\ metrics.Metrics.WinningTrades + metrics.Metrics.LosingTrades
           <= metrics.Metrics.TotalTrades

-----------------------------------------------------------------------------
(* Claims about the Broker *)

\* C24: a limit Buy fills, at exactly the limit price, iff bar.low <= limitPrice; a limit
\* Sell fills, at exactly the limit price, iff bar.high >= limitPrice; otherwise
\* ExecuteOrder fails and returns no Trade; the slippage cost of a filled limit order is 0.
C24_LimitOrders ==
    (fill.exec.called /\ fill.order.Type = "LIMIT") =>
      LET fills == IF fill.order.Side = "BUY" THEN fill.bar.Low <= fill.order.Price
                   ELSE fill.bar.High >= fill.order.Price
      IN /\ fill.exec.ok <=> fills
         /\ fill.exec.ok => /\ fill.exec.trade.Price = fill.order.Price
                            /\ fill.exec.trade.Slippage = 0
         /\ ~fill.exec.ok => fill.exec.trade = NoTrade

\* C24 witness: a limit Buy below the close filled under a broker with slippage
C24_Witness ==
    /\ fill.exec.called
    /\ fill.exec.ok
    /\ fill.order.Type = "LIMIT"
    /\ fill.order.Side = "BUY"
    /\ fill.order.Price < fill.bar.Close
    /\ fill.exec.totalSlippage > 0

\* C25: a stop Buy triggers iff bar.high >= stopPrice and then fills at stop price plus
\* slippage, a price >= stopPrice; a stop Sell triggers iff bar.low <= stopPrice and then
\* fills at stop price minus slippage, a price <= stopPrice; otherwise ExecuteOrder fails
\* and returns no Trade.
C25_StopOrders ==
    (fill.exec.called /\ fill.order.Type = "STOP") =>
      LET stopPrice == fill.order.StopPrice
          triggers == IF fill.order.Side = "BUY" THEN fill.bar.High >= stopPrice
                      ELSE fill.bar.Low <= stopPrice
      IN /\ fill.exec.ok <=> triggers
         /\ (fill.exec.ok /\ fill.order.Side = "BUY") =>
              /\ fill.exec.trade.Price >= stopPrice
              /\ fill.exec.trade.Price
                   = FDiv(stopPrice * (100 + fill.exec.totalSlippage), 100)
         /\ (fill.exec.ok /\ fill.order.Side = "SELL") =>
              /\ fill.exec.trade.Price <= stopPrice
              /\ fill.exec.trade.Price
                   = FDiv(stopPrice * (100 - fill.exec.totalSlippage), 100)
         /\ ~fill.exec.ok => fill.exec.trade = NoTrade

\* C25 witness: a stop Sell triggered and filled below its stop price
C25_Witness ==
    /\ fill.exec.called
    /\ fill.exec.ok
    /\ fill.order.Type = "STOP"
    /\ fill.order.Side = "SELL"
    /\ fill.exec.trade.Price < fill.order.StopPrice

\* C26: market orders always fill; with total slippage s in [base, base + max], a market
\* Buy fills at bar.close x (1 + s/100) >= bar.close, a market Sell at
\* bar.close x (1 - s/100) <= bar.close, and the recorded slippage cost is
\* |fillPrice - bar.close| x quantity.
C26_MarketOrders ==
    (fill.exec.called /\ fill.order.Type = "MARKET") =>
      LET s == fill.exec.totalSlippage
          close == fill.bar.Close
          fillPrice == fill.exec.trade.Price
      IN /\ fill.exec.ok
         /\ s >= fill.broker.slippage
         /\ s <= fill.broker.slippage + fill.broker.maxSlippage
         /\ fill.order.Side = "BUY" =>
              (fillPrice = FDiv(close * (100 + s), 100) /\ fillPrice >= close)
         /\ fill.order.Side = "SELL" =>
              (fillPrice = FDiv(close * (100 - s), 100) /\ fillPrice <= close)
         /\ fill.exec.trade.Slippage = Abs(fillPrice - close) * fill.order.Quantity

\* C26 witness: a market Buy filled above the close with a random slippage component
C26_Witness ==
    /\ fill.exec.called
    /\ fill.order.Type = "MARKET"
    /\ fill.order.Side = "BUY"
    /\ fill.exec.totalSlippage > fill.broker.slippage
    /\ fill.exec.trade.Price > fill.bar.Close
    /\ fill.exec.trade.Slippage > 0

\* C28: ExecuteOrder returns a Trade iff CanExecuteOrder returns true iff
\* GetExecutionPrice returns a price without error, for every order type, side and bar;
\* for a limit order GetExecutionPrice returns the price ExecuteOrder fills at; and
\* neither query changes broker or ledger state.
C28_FillabilityAgreement ==
    /\ [](/\ (fill.exec.called /\ fill.can.called) => (fill.exec.ok <=> fill.can.ok)
          /\ (fill.can.called /\ fill.quote.called) => (fill.can.ok <=> fill.quote.ok)
          /\ (fill.exec.called /\ fill.quote.called) => (fill.exec.ok <=> fill.quote.ok)
          /\ (/\ fill.exec.called /\ fill.quote.called
              /\ fill.order.Type = "LIMIT" /\ fill.exec.ok)
               => fill.quote.price = fill.exec.trade.Price)
    /\ [][(fill'.can # fill.can \/ fill'.quote # fill.quote) =>
            /\ fill'.broker = fill.broker
            /\ fill'.exec = fill.exec
            /\ broker' = broker
            /\ portfolio' = portfolio]_vars

\* C28 witness: the three methods were called on a limit Sell that fills and on which
\* they agree
C28_Witness ==
    /\ fill.exec.called /\ fill.can.called /\ fill.quote.called
    /\ fill.order.Type = "LIMIT"
    /\ fill.order.Side = "SELL"
    /\ fill.exec.ok /\ fill.can.ok /\ fill.quote.ok
    /\ fill.quote.price = fill.exec.trade.Price

\* the ceiling of the per-share activity fee, in money units
FinraTafCeiling == FDiv(FinraTafMaxMicros * UnitsPerDollar, 1000000)

\* C29: the regulatory transaction fee is 0 on every Buy trade and a fixed rate times
\* notional on every Sell trade; the per-share activity fee is charged on both sides, is
\* proportional to quantity and never exceeds its fixed ceiling; commission is
\* rate x notional under the percentage model and the flat rate under the fixed model.
C29_FeeRules ==
    (fill.exec.called /\ fill.exec.ok) =>
      LET trade == fill.exec.trade
          notional == trade.Quantity * trade.Price
          cc == fill.broker.commissionConfig
      IN /\ trade.Side = "BUY" => trade.SecFee = 0
         /\ trade.Side = "SELL" =>
              trade.SecFee = FDiv(notional * SecFeePerTenMillion, 10000000)
         /\ trade.FinraTaf <= FinraTafCeiling
         /\ trade.Quantity * FinraTafPerShareMicros <= FinraTafMaxMicros =>
              trade.FinraTaf
                = FDiv(trade.Quantity * FinraTafPerShareMicros * UnitsPerDollar, 1000000)
         /\ trade.Quantity * FinraTafPerShareMicros >= FinraTafMaxMicros =>
              trade.FinraTaf = FinraTafCeiling
         /\ cc.Type = "percentage" =>
              trade.Commission = FDiv(notional * cc.Rate[1], cc.Rate[2])
         /\ cc.Type = "fixed" => trade.Commission = cc.Rate[1]

\* C29 witness: a Sell of more shares than the activity fee's ceiling covers, with a
\* regulatory fee, under the percentage model
C29_Witness ==
    /\ fill.exec.called
    /\ fill.exec.ok
    /\ fill.exec.trade.Side = "SELL"
    /\ fill.exec.trade.SecFee > 0
    /\ fill.exec.trade.Quantity * FinraTafPerShareMicros > FinraTafMaxMicros
    /\ fill.exec.trade.FinraTaf = FinraTafCeiling
    /\ fill.broker.commissionConfig.Type = "percentage"
    /\ fill.exec.trade.Commission > 0

-----------------------------------------------------------------------------
(* Claims about CanAfford *)

\* C30: CanAfford is a pure query: a Buy is affordable iff cash >= quantity x price +
\* estimated commission; a Sell is affordable iff the symbol has an active position with
\* long quantity >= the order quantity, so a Sell with no position or against a short
\* position is never affordable; calling CanAfford changes no Ledger state.
C30_CanAffordPureQuery ==
    last.op = "CanAfford" =>
      LET order == last.order
          notional == order.Quantity * last.price
          held == IF order.Symbol \in DOMAIN portfolio.positions
                  THEN portfolio.positions[order.Symbol].Quantity ELSE 0
      IN /\ order.Side = "BUY" =>
              (last.result <=>
                 portfolio.cash
                   >= notional + CalculateCommission(last.commissionConfig, notional))
         /\ order.Side = "SELL" =>
              (last.result <=> (held > 0 /\ held >= order.Quantity))
         /\ (order.Side = "SELL" /\ held <= 0) => ~last.result
         /\ portfolio = last.before

\* C30 witness: CanAfford refused a Sell against a short position
C30_Witness ==
    /\ last.op = "CanAfford"
    /\ last.order.Side = "SELL"
    /\ last.order.Symbol \in DOMAIN portfolio.positions
    /\ portfolio.positions[last.order.Symbol].Quantity < 0
    /\ ~last.result

-----------------------------------------------------------------------------
(* Claims about the historical data source *)

\* the timestamps the provider has a bar of symbol s for
StampsOf(s) == { feed.hf.provider[s][i].Timestamp : i \in 1 .. Len(feed.hf.provider[s]) }

\* the timestamps for which every configured symbol has a bar
CompleteTimestamps ==
    { t \in FeedTimestamps : \A s \in Range(feed.hf.symbols) : t \in StampsOf(s) }

\* C27: the historical data source yields each DataPoint exactly once in strictly
\* increasing timestamp order, yields only timestamps for which every configured symbol
\* has a bar, reports HasMoreData false exactly when the cursor has passed the last
\* DataPoint (after initialization), and after Reset replays the same sequence from the
\* start.
C27_HistoricalFeedOrder ==
    /\ [](LET yielded == feed.call.yielded
              hf == feed.hf
          IN /\ \A i, j \in 1 .. Len(yielded) :
                  i < j => yielded[i].Timestamp < yielded[j].Timestamp
             /\ \A i \in 1 .. Len(yielded) :
                  /\ yielded[i].Timestamp \in CompleteTimestamps
                  /\ DOMAIN yielded[i].Bars = Range(hf.symbols)
                  /\ \A s \in Range(hf.symbols) :
                       /\ yielded[i].Bars[s].Timestamp = yielded[i].Timestamp
                       /\ yielded[i].Bars[s] \in Range(hf.provider[s])
             /\ yielded = SubSeq(hf.dataPoints, 1, hf.currentIdx)
             /\ hf.initialized =>
                  { hf.dataPoints[i].Timestamp : i \in 1 .. Len(hf.dataPoints) }
                    = CompleteTimestamps
             /\ (feed.call.op = "HasMoreData" /\ hf.initialized) =>
                  (~feed.call.hasMore <=> yielded = hf.dataPoints)
             /\ (feed.call.op = "GetNextDataPoint" /\ ~feed.call.err) =>
                  IF feed.call.dataPoint = <<>> THEN yielded = hf.dataPoints
                  ELSE feed.call.dataPoint[1] = yielded[Len(yielded)])
    /\ [][/\ feed.hf.initialized => feed'.hf.dataPoints = feed.hf.dataPoints
          /\ feed'.call.op = "Reset" =>
               (feed'.hf.currentIdx = 0 /\ feed'.call.yielded = <<>>)]_vars

\* C27 witness: after a Reset the feed has replayed its two DataPoints, the provider
\* having returned the bars of a symbol out of order and a timestamp that lacks a symbol
C27_Witness ==
    /\ feed.call.op = "GetNextDataPoint"
    /\ feed.call.resets > 0
    /\ Len(feed.call.yielded) = 2
    /\ feed.call.yielded = feed.hf.dataPoints
    /\ feed.hf.symbols = <<"A", "B">>
    /\ \E i, j \in 1 .. Len(feed.hf.provider["A"]) :
         i < j /\ feed.hf.provider["A"][i].Timestamp > feed.hf.provider["A"][j].Timestamp
    /\ StampsOf("A") # CompleteTimestamps

\* the consequence C27 draws for the Engine, whose DataPoints come in the feed's order:
\* the timestamps of the equity curve are non-decreasing
EquityTimestampsNonDecreasing ==
    \A i, j \in 1 .. Len(results.EquityCurve) :
      i < j => results.EquityCurve[i].Timestamp <= results.EquityCurve[j].Timestamp

-----------------------------------------------------------------------------
(* Claims about the Capital Allocator's ranking and policies *)

\* a ranks strictly before b under the policy's key
RanksBefore(method, a, b) ==
    CASE method \in {"confidence", "sequential"} ->
           \/ a.Confidence > b.Confidence
           \/ a.Confidence = b.Confidence /\ a.Priority > b.Priority
      [] method = "priority" ->
           \/ a.Priority > b.Priority
           \/ a.Priority = b.Priority /\ a.Confidence > b.Confidence
      [] OTHER -> FALSE

\* the number of signals AllocateCapital considers
SelectedCount ==
    IF allocator.config.MaxPositions > 0
    THEN Min(allocator.config.MaxPositions, Len(allocator.signals))
    ELSE Len(allocator.signals)

\* the signals AllocateCapital considers, in the order it considers them
Selected == SubSeq(allocator.sorted, 1, SelectedCount)

WeightedBudget ==
    FDiv(TradableCash(allocator.config, allocator.cash) * allocator.config.PositionSize, 100)

\* the weight of a signal under the policy
WeightOf(signal) ==
    IF allocator.config.Method = "confidence" THEN signal.Confidence ELSE signal.Priority

\* the sum of the selected signals' weights
SelectedWeight == SumSeq([i \in 1 .. Len(Selected) |-> WeightOf(Selected[i])])

\* the budget remaining before the k-th emitted order: the budget less the cost of the
\* orders emitted before it
RECURSIVE RemainingBefore(_)
RemainingBefore(k) ==
    IF k = 1 THEN WeightedBudget
    ELSE RemainingBefore(k - 1) - allocator.emitted[k - 1].cost

\* every emitted order was sized from min(budget x weight / sum of weights, remaining
\* budget), the last-ranked signal's from the entire remaining budget, and costs no more
\* than the remaining budget
WeightedAllocationAsStated ==
    \A k \in 1 .. Len(allocator.emitted) :
      LET e == allocator.emitted[k]
          remaining == RemainingBefore(k)
      IN /\ IF e.signal = Selected[Len(Selected)]
            THEN e.allocation = remaining
            ELSE SelectedWeight # 0 =>
                   e.allocation = Min(FDiv(WeightedBudget * WeightOf(e.signal),
                                           SelectedWeight),
                                      remaining)
         /\ e.cost <= remaining
         /\ remaining - e.cost >= 0

RECURSIVE SequentialRemainingBefore(_)
SequentialRemainingBefore(k) ==
    IF k = 1 THEN TradableCash(allocator.config, allocator.cash)
    ELSE SequentialRemainingBefore(k - 1) - allocator.emitted[k - 1].cost

\* the place of a signal in the ranked selection
RankOf(signal) == CHOOSE i \in 1 .. Len(Selected) : Selected[i] = signal

\* C33: under the sequential policy the signals are visited in ranked order, each is
\* sized from remainingCash x min(positionSizeFraction, remainingCash / tradableCash),
\* remainingCash decreases by the cost of each emitted order, and once remainingCash is
\* at or below the minimum buffer no further order is emitted for any later signal.
C33_SequentialAllocation ==
    (allocator.called /\ allocator.config.Method = "sequential")
      => LET tradableCash == TradableCash(allocator.config, allocator.cash)
         IN \A k \in 1 .. Len(allocator.emitted) :
              LET e == allocator.emitted[k]
                  remainingCash == SequentialRemainingBefore(k)
                  fraction == IF allocator.config.PositionSize * tradableCash
                                   <= 100 * remainingCash
                              THEN <<allocator.config.PositionSize, 100>>
                              ELSE <<remainingCash, tradableCash>>
                  sizedFrom == FDiv(remainingCash * fraction[1], fraction[2])
              IN /\ remainingCash > allocator.config.MinCashBuffer
                 /\ e.allocation = sizedFrom
                 /\ e.order.Quantity
                      = calculatePositionSize(allocator.config, e.signal, sizedFrom)
                 /\ e.remainingCash = remainingCash - e.cost
                 /\ k > 1 => RankOf(allocator.emitted[k - 1].signal) < RankOf(e.signal)

\* C33 witness: the sequential policy emitted two orders, the second sized from less than
\* the first, and then stopped with a later signal left because the remaining cash had
\* fallen to or below a positive minimum buffer
C33_Witness ==
    /\ allocator.called
    /\ allocator.config.Method = "sequential"
    /\ allocator.config.MinCashBuffer > 0
    /\ Len(allocator.emitted) = 2
    /\ allocator.emitted[2].allocation < allocator.emitted[1].allocation
    /\ RankOf(allocator.emitted[2].signal) < Len(Selected)
    /\ allocator.emitted[2].remainingCash <= allocator.config.MinCashBuffer

-----------------------------------------------------------------------------
(* Claims relating the FIFO Trade Matcher and the Position Ledger *)

\* the PositionTracker of a symbol after the symbol's trades of a log, processed in
\* order as CalculateMetrics does
RECURSIVE TrackerAfter(_, _, _)
TrackerAfter(trades, symbol, pt) ==
    IF trades = <<>> THEN pt
    ELSE TrackerAfter(Tail(trades), symbol,
                      IF Head(trades).Symbol = symbol
                      THEN ProcessTrade(pt, Head(trades)).pt ELSE pt)

\* the open lots of a symbol after the Ledger's trade history
OpenLots(symbol) == TrackerAfter(portfolio.trades, symbol, NewPositionTracker).OpenTrades

\* the Ledger's signed position quantity, 0 without an active position
LedgerQuantity(symbol) ==
    IF symbol \in DOMAIN portfolio.positions THEN portfolio.positions[symbol].Quantity
    ELSE 0

\* C34: after any sequence of buy and sell trades, going short and reversing included,
\* the FIFO matcher's net position for a symbol (the sum of its open lot quantities)
\* equals the Ledger's signed position quantity for the symbol (0 without a position).
C34_MatcherLedgerAgreement ==
    \A s \in Symbols : GetCurrentPosition(OpenLots(s)) = LedgerQuantity(s)

\* C34 witness: a symbol was sold short, the short was added to, and a larger Buy then
\* reversed it to a long position
C34_Witness ==
    /\ Len(portfolio.trades) = 3
    /\ \A i \in 1 .. 3 : portfolio.trades[i].Symbol = "A"
    /\ portfolio.trades[1].Side = "SELL"
    /\ portfolio.trades[2].Side = "SELL"
    /\ portfolio.trades[3].Side = "BUY"
    /\ LedgerQuantity("A") # 0
    /\ Len(OpenLots("A")) >= 2

\* C35: after any sequence of trades, a symbol's FIFO queue of open lots never holds both
\* a long (positive-quantity) lot and a short (negative-quantity) lot, and never holds a
\* lot of quantity 0.
C35_LotSignHomogeneity ==
    LET open == tracker.OpenTrades
    IN /\ ~(\E i, j \in 1 .. Len(open) : open[i].Quantity > 0 /\ open[j].Quantity < 0)
       /\ \A i \in 1 .. Len(open) : open[i].Quantity # 0

\* the part of C35 that holds: no lot of quantity 0 is ever queued
NoZeroQuantityLot ==
    \A i \in 1 .. Len(tracker.OpenTrades) : tracker.OpenTrades[i].Quantity # 0

-----------------------------------------------------------------------------
(* Claims about the results of a run *)

\* C36: after a successful Run the maximum drawdown reported in the results (and used for
\* the Calmar ratio and the drawdown metrics) equals the Ledger's maximum drawdown
\* accumulated over the run's mark-to-market points.
C36_ReportedMaxDrawdown ==
    pc = "Finalized" => results.MaxDrawdown = portfolio.maxDrawdown

\* what holds instead: Run never assigns the results' maximum drawdown
ReportedMaxDrawdownStaysZero == results.MaxDrawdown = FracZero

-----------------------------------------------------------------------------
(* Claims about the Ledger's mark value after a trade *)

\* C37: immediately after ExecuteTrade(trade, markPrice) the affected position's mark
\* value equals its new quantity x markPrice, however many earlier trades hit the same
\* symbol since the last mark-to-market.
C37_MarkValueAfterTrade ==
    (last.op = "ExecuteTrade" /\ last.trade.Symbol \in DOMAIN portfolio.positions)
      => LET position == portfolio.positions[last.trade.Symbol]
         IN position.MarketValue = position.Quantity * last.price

\* the part of C37 that holds: the first trade on a symbol without a position leaves
\* the mark value at quantity x markPrice
MarkValueAfterOpeningTrade ==
    (/\ last.op = "ExecuteTrade"
     /\ last.trade.Symbol \in DOMAIN portfolio.positions
     /\ last.trade.Symbol \notin DOMAIN last.before.positions)
      => LET position == portfolio.positions[last.trade.Symbol]
         IN position.MarketValue = position.Quantity * last.price

-----------------------------------------------------------------------------
(* Claims about the Orders of a tick and the trade log *)

\* C38: every Trade produced from a Strategy Order is filled against a Bar present in the
\* current DataPoint for the Order's symbol: an Order naming a symbol with no Bar in the
\* DataPoint produces no Trade, so every recorded Trade carries the DataPoint's timestamp
\* and a positive price.
C38_FilledAgainstPresentBar ==
    /\ [](\A i \in 1 .. Len(results.Trades) :
            results.Trades[i].Reason = "signal" => results.Trades[i].Price > 0)
    /\ [][(pc = "Orders" /\ orders # <<>>)
            => IF Head(orders).Symbol \in DOMAIN dataPoint.Bars
               THEN Len(results'.Trades) > Len(results.Trades)
                      => results'.Trades[Len(results'.Trades)].Timestamp
                           = dataPoint.Timestamp
               ELSE results'.Trades = results.Trades]_vars

\* the part of C38 that holds: an Order whose symbol has a Bar in the DataPoint is
\* filled at a positive price and carries the DataPoint's timestamp
FilledAgainstPresentBarWhenPresent ==
    [][(pc = "Orders" /\ orders # <<>> /\ Head(orders).Symbol \in DOMAIN dataPoint.Bars
          /\ Len(results'.Trades) > Len(results.Trades))
         => LET trade == results'.Trades[Len(results'.Trades)]
            IN trade.Timestamp = dataPoint.Timestamp /\ trade.Price > 0]_vars

\* C39: at every point of a run after an order has been processed (main loop and
\* liquidation) the results' trade log and the Ledger's trade history are the same
\* sequence of Trades, and the log is append-only: an earlier entry is never changed or
\* removed.
C39_TradeLogAgreement ==
    /\ [](results.Trades = portfolio.trades)
    /\ [][/\ Len(results'.Trades) >= Len(results.Trades)
          /\ SubSeq(results'.Trades, 1, Len(results.Trades)) = results.Trades]_vars

\* C39 witness: a run ended whose log holds a Strategy trade followed by a liquidation
\* trade
C39_Witness ==
    /\ pc = "Finalized"
    /\ Len(results.Trades) >= 2
    /\ results.Trades[1].Reason = "signal"
    /\ results.Trades[Len(results.Trades)].Reason = "end_of_backtest_liquidation"
    /\ Len(portfolio.trades) = Len(results.Trades)

\* C40: in every reachable state in which end-of-run liquidation finds at least one open
\* position the equity curve holds at least one EquityPoint, even when some or all ticks
\* ended in a Strategy callback error, so taking the last equity timestamp for the
\* synthetic bar cannot fail.
C40_LiquidationHasEquityPoint ==
    /\ pc # "Panic"
    /\ (pc \in {"Liquidate", "Liquidating"} /\ DOMAIN portfolio.positions # {})
         => Len(results.EquityCurve) >= 1

\* C40 witness: liquidation is under way over an open position after a run in which a
\* tick ended in a Strategy error, with a single EquityPoint on the curve
C40_Witness ==
    /\ pc = "Liquidating"
    /\ liq.todo # {}
    /\ DOMAIN portfolio.positions # {}
    /\ hist.errorTicks > 0
    /\ dataPointCount = 2
    /\ Len(results.EquityCurve) = 1

====
